---------------------------- MODULE Spec2Model ----------------------------
(***************************************************************************)
(* Arithmetic in GF(2^k) as implemented by the guff crate: the reference   *)
(* (bit-serial) GaloisField methods of src/lib.rs and the table-driven     *)
(* fields of src/good.rs, with the nibble-by-byte table of src/mull.rs.    *)
(*                                                                         *)
(* Machine integers are modelled as naturals below 2^w; every shift and    *)
(* every table read keeps the width and the bounds the Rust code has.      *)
(***************************************************************************)
EXTENDS Integers, Sequences, FiniteSets, TLC

(***************************************************************************)
(* Primitive integer operations (u8 / u16 / u32 values as naturals).       *)
(***************************************************************************)

\* x ^ y and x & y on nibbles, bit by bit.
XorN == [x \in 0..15 |-> [y \in 0..15 |->
           ((x + y) % 2)
         + 2 * (((x \div 2) + (y \div 2)) % 2)
         + 4 * (((x \div 4) + (y \div 4)) % 2)
         + 8 * (((x \div 8) + (y \div 8)) % 2)]]

AndN == [x \in 0..15 |-> [y \in 0..15 |->
           ((x % 2) * (y % 2))
         + 2 * (((x \div 2) % 2) * ((y \div 2) % 2))
         + 4 * (((x \div 4) % 2) * ((y \div 4) % 2))
         + 8 * (((x \div 8) % 2) * ((y \div 8) % 2))]]

RECURSIVE Xor(_, _)
\* a ^ b
Xor(a, b) ==
    IF a = 0 THEN b
    ELSE IF b = 0 THEN a
    ELSE XorN[a % 16][b % 16] + 16 * Xor(a \div 16, b \div 16)

RECURSIVE And(_, _)
\* a & b
And(a, b) ==
    IF a = 0 \/ b = 0 THEN 0
    ELSE AndN[a % 16][b % 16] + 16 * And(a \div 16, b \div 16)

\* a << n in a w-bit unsigned type (n < w): the bits shifted out are lost.
Shl(a, n, w) == (IF w - n >= 31 THEN a ELSE a % (2 ^ (w - n))) * (2 ^ n)

\* a >> n
Shr(a, n) == a \div (2 ^ n)

\* number of significant bits of a nibble
BitLenN == [x \in 0..15 |-> IF x = 0 THEN 0 ELSE IF x < 2 THEN 1
                            ELSE IF x < 4 THEN 2 ELSE IF x < 8 THEN 3 ELSE 4]

RECURSIVE BitLen(_)
\* number of significant bits of a
BitLen(a) == IF a < 16 THEN BitLenN[a] ELSE 4 + BitLen(a \div 16)

\* a.leading_zeros() of a w-bit unsigned value
leading_zeros(a, w) == w - BitLen(a)

(***************************************************************************)
(* Field classes: the associated types and constants of each impl of       *)
(* GaloisField.  EBits / EEBits are the widths of the storage types E, EE. *)
(***************************************************************************)
F4  == [name |-> "F4",  EBits |-> 8,  EEBits |-> 8,
        ORDER |-> 4,  POLY_BIT |-> 16,    FIELD_MASK |-> 15,    HIGH_BIT |-> 8]

F8  == [name |-> "F8",  EBits |-> 8,  EEBits |-> 16,
        ORDER |-> 8,  POLY_BIT |-> 256,   FIELD_MASK |-> 255,   HIGH_BIT |-> 128]

\* as declared in src/lib.rs: ORDER is 8 for this 16-bit class
F16 == [name |-> "F16", EBits |-> 16, EEBits |-> 32,
        ORDER |-> 8,  POLY_BIT |-> 65536, FIELD_MASK |-> 65535, HIGH_BIT |-> 32768]

\* Constructors of the reference fields
new_gf4(full, compact)  ==
    [impl |-> "ref", G |-> F4,  full |-> full, compact |-> compact]
new_gf8(full, compact)  ==
    [impl |-> "ref", G |-> F8,  full |-> full, compact |-> compact]
new_gf16(full, compact) ==
    [impl |-> "ref", G |-> F16, full |-> full, compact |-> compact]

poly(f)      == f.compact
full_poly(f) == f.full

(***************************************************************************)
(* Reference arithmetic: the default methods of trait GaloisField.         *)
(***************************************************************************)
\* fn add as integer addition, wrapped to the field
add_carry(f, a, b) == (a + b) % (f.G.FIELD_MASK + 1)

add(f, a, b) == Xor(a, b)

\* The loop of fn mul adding a into the result before a is doubled
RECURSIVE mul_loop_late(_, _, _, _, _)
mul_loop_late(f, a, b, bit, result) ==
    LET a1   == IF And(a, f.G.HIGH_BIT) # 0
                THEN And(Xor(Shl(a, 1, f.G.EBits), poly(f)), f.G.FIELD_MASK)
                ELSE Shl(a, 1, f.G.EBits)
        r1   == IF And(b, bit) # 0 THEN Xor(result, a) ELSE result
        bit1 == Shl(bit, 1, f.G.EBits)
    IN  IF And(bit1, f.G.FIELD_MASK) = 0 THEN r1
        ELSE mul_loop_late(f, a1, b, bit1, r1)

\* The loop of fn mul without the mask that keeps a GF(16) value in its
\* low nibble
RECURSIVE mul_loop_unmasked(_, _, _, _, _)
mul_loop_unmasked(f, a, b, bit, result) ==
    LET a1   == IF And(a, f.G.HIGH_BIT) # 0
                THEN Xor(Shl(a, 1, f.G.EBits), poly(f))
                ELSE Shl(a, 1, f.G.EBits)
        r1   == IF And(b, bit) # 0 THEN Xor(result, a1) ELSE result
        bit1 == Shl(bit, 1, f.G.EBits)
    IN  IF And(bit1, f.G.FIELD_MASK) = 0 THEN r1
        ELSE mul_loop_unmasked(f, a1, b, bit1, r1)

RECURSIVE mul_loop(_, _, _, _, _)
mul_loop(f, a, b, bit, result) ==
    LET a1   == IF And(a, f.G.HIGH_BIT) # 0
                THEN And(Xor(Shl(a, 1, f.G.EBits), poly(f)), f.G.FIELD_MASK)
                ELSE Shl(a, 1, f.G.EBits)
        r1   == IF And(b, bit) # 0 THEN Xor(result, a1) ELSE result
        bit1 == Shl(bit, 1, f.G.EBits)
    IN  IF And(bit1, f.G.FIELD_MASK) = 0 THEN r1
        ELSE mul_loop(f, a1, b, bit1, r1)

\* fn mul with the loop starting at bit 0 of b, which the initial result
\* has already taken
GaloisField_mul_bit1(f, a, b) ==
    mul_loop(f, a, b, 1, IF And(b, 1) # 0 THEN a ELSE 0)

\* fn mul with the result starting at zero whatever the low bit of b
GaloisField_mul_nobit0(f, a, b) ==
    mul_loop(f, a, b, 2, 0)

GaloisField_mul(f, a, b) ==
    mul_loop(f, a, b, 2, IF And(b, 1) # 0 THEN a ELSE 0)


\* Outcomes that are not values: a panic (a failed assertion, an arithmetic
\* overflow or a shift by the full width, an out-of-range index), and a loop
\* that never exits.
Panic == -1
Hang  == -2

\* The loop of fn inv exchanging u and v but not z and g
RECURSIVE inv_loop_halfswap(_, _, _, _, _)
inv_loop_halfswap(f, u, v, z, g) ==
    IF u = 1 THEN z
    ELSE
      LET w    == f.G.EBits
          lzu  == leading_zeros(u, w)
          lzv  == leading_zeros(v, w)
          swap == lzu > lzv
          u1   == IF swap THEN v ELSE u
          v1   == IF swap THEN u ELSE v
          i    == IF swap THEN lzu - lzv ELSE lzv - lzu
      IN  IF v1 = 0 THEN Hang
          ELSE IF i < 0 \/ i >= w THEN Panic
          ELSE inv_loop_halfswap(f,
                        And(Xor(u1, Shl(v1, i, w)), f.G.FIELD_MASK), v1,
                        And(Xor(z, Shl(g, i, w)), f.G.FIELD_MASK), g)

\* The loop of fn inv without the exchange of (u, z) and (v, g)
RECURSIVE inv_loop_noswap(_, _, _, _, _)
inv_loop_noswap(f, u, v, z, g) ==
    IF u = 1 THEN z
    ELSE
      LET w == f.G.EBits
          i == leading_zeros(v, w) - leading_zeros(u, w)
      IN  IF v = 0 THEN Hang
          ELSE IF i < 0 \/ i >= w THEN Panic
          ELSE inv_loop_noswap(f,
                        And(Xor(u, Shl(v, i, w)), f.G.FIELD_MASK), v,
                        And(Xor(z, Shl(g, i, w)), f.G.FIELD_MASK), g)

\* fn inv: the `while u != one` loop of the extended Euclidean method.
\* When v is zero the body leaves u unchanged, so the loop never exits.
RECURSIVE inv_loop(_, _, _, _, _)
inv_loop(f, u, v, z, g) ==
    IF u = 1 THEN z
    ELSE
      LET w    == f.G.EBits
          lzu  == leading_zeros(u, w)
          lzv  == leading_zeros(v, w)
          swap == lzu > lzv
          u1   == IF swap THEN v ELSE u
          v1   == IF swap THEN u ELSE v
          z1   == IF swap THEN g ELSE z
          g1   == IF swap THEN z ELSE g
          \* i = v.leading_zeros() - u.leading_zeros(), after the swap
          i    == IF swap THEN lzu - lzv ELSE lzv - lzu
      IN  IF v1 = 0 THEN Hang
          ELSE IF i < 0 \/ i >= w THEN Panic
          ELSE inv_loop(f,
                        And(Xor(u1, Shl(v1, i, w)), f.G.FIELD_MASK), v1,
                        And(Xor(z1, Shl(g1, i, w)), f.G.FIELD_MASK), g1)

\* fn inv without the early return for 0 and 1
GaloisField_inv_noearly(f, a) ==
    LET w     == f.G.EBits
        fixup == IF f.G.ORDER = 4 THEN 4 ELSE 0
        i     == 1 + leading_zeros(a, w) - fixup
    IN  IF i < 0 \/ i >= w THEN Panic
        ELSE inv_loop(f,
                      And(Xor(poly(f), Shl(a, i, w)), f.G.FIELD_MASK), a,
                      And(Xor(0, Shl(1, i, w)), f.G.FIELD_MASK), 1)

\* fn inv without the fixup for the unused top nibble of GF(16)
GaloisField_inv_nofixup(f, a) ==
    IF a = 0 \/ a = 1 THEN a
    ELSE
      LET w == f.G.EBits
          i == 1 + leading_zeros(a, w)
      IN  IF i < 0 \/ i >= w THEN Panic
          ELSE inv_loop(f,
                        And(Xor(poly(f), Shl(a, i, w)), f.G.FIELD_MASK), a,
                        And(Xor(0, Shl(1, i, w)), f.G.FIELD_MASK), 1)

GaloisField_inv(f, a) ==
    IF a = 0 \/ a = 1 THEN a
    ELSE
      LET w     == f.G.EBits
          fixup == IF f.G.ORDER = 4 THEN 4 ELSE 0
          i     == 1 + leading_zeros(a, w) - fixup
      IN  IF i < 0 \/ i >= w THEN Panic
          ELSE inv_loop(f,
                        And(Xor(poly(f), Shl(a, i, w)), f.G.FIELD_MASK), a,
                        And(Xor(0, Shl(1, i, w)), f.G.FIELD_MASK), 1)

\* fn mull: long multiplication, not reduced; the result is of type EE.
\* The loop exits when aa is shifted out to zero.  Once mask (of type E) is
\* shifted out, `b & mask` is zero in every remaining iteration: they shift
\* aa and leave res as it is, so res is already the value returned.
RECURSIVE mull_loop(_, _, _, _, _)
mull_loop(f, aa, b, mask, res) ==
    LET res1  == IF And(b, mask) # 0 THEN Xor(res, aa) ELSE res
        mask1 == Shl(mask, 1, f.G.EBits)
    IN  IF mask1 = 0 THEN res1
        ELSE LET aa1 == Shl(aa, 1, f.G.EEBits)
             IN  IF aa1 = 0 THEN res1 ELSE mull_loop(f, aa1, b, mask1, res1)

mull(f, a, b) == mull_loop(f, a, b, 1, 0)

\* fn mod_reduce: bitwise reduction of an EE value against full_poly.
\* Once mask and poly are shifted down to zero nothing changes any more.
RECURSIVE mod_reduce_loop(_, _, _, _)
mod_reduce_loop(f, a, p, mask) ==
    LET a1 == IF And(a, mask) # 0 THEN Xor(a, p) ELSE a
    IN  IF a1 < f.G.POLY_BIT THEN a1
        ELSE IF mask = 0 /\ p = 0 THEN Hang
        ELSE mod_reduce_loop(f, a1, Shr(p, 1), Shr(mask, 1))

mod_reduce(f, a) ==
    mod_reduce_loop(f, a,
                    Shl(full_poly(f), f.G.ORDER - 1, f.G.EEBits),
                    Shl(f.G.POLY_BIT, f.G.ORDER - 1, f.G.EEBits))


(***************************************************************************)
(* src/mull.rs: the 4096-entry table of nibble-by-byte long products, as   *)
(* written in the source (entry k of the Rust array is MULL[k + 1]).       *)
(***************************************************************************)
MULL == <<
  0, 0, 0, 0, 0, 0, 0, 0, 0, 0, 0, 0, 0, 0, 0, 0,
  0, 0, 0, 0, 0, 0, 0, 0, 0, 0, 0, 0, 0, 0, 0, 0,
  0, 0, 0, 0, 0, 0, 0, 0, 0, 0, 0, 0, 0, 0, 0, 0,
  0, 0, 0, 0, 0, 0, 0, 0, 0, 0, 0, 0, 0, 0, 0, 0,
  0, 0, 0, 0, 0, 0, 0, 0, 0, 0, 0, 0, 0, 0, 0, 0,
  0, 0, 0, 0, 0, 0, 0, 0, 0, 0, 0, 0, 0, 0, 0, 0,
  0, 0, 0, 0, 0, 0, 0, 0, 0, 0, 0, 0, 0, 0, 0, 0,
  0, 0, 0, 0, 0, 0, 0, 0, 0, 0, 0, 0, 0, 0, 0, 0,
  0, 0, 0, 0, 0, 0, 0, 0, 0, 0, 0, 0, 0, 0, 0, 0,
  0, 0, 0, 0, 0, 0, 0, 0, 0, 0, 0, 0, 0, 0, 0, 0,
  0, 0, 0, 0, 0, 0, 0, 0, 0, 0, 0, 0, 0, 0, 0, 0,
  0, 0, 0, 0, 0, 0, 0, 0, 0, 0, 0, 0, 0, 0, 0, 0,
  0, 0, 0, 0, 0, 0, 0, 0, 0, 0, 0, 0, 0, 0, 0, 0,
  0, 0, 0, 0, 0, 0, 0, 0, 0, 0, 0, 0, 0, 0, 0, 0,
  0, 0, 0, 0, 0, 0, 0, 0, 0, 0, 0, 0, 0, 0, 0, 0,
  0, 0, 0, 0, 0, 0, 0, 0, 0, 0, 0, 0, 0, 0, 0, 0,
  0, 1, 2, 3, 4, 5, 6, 7, 8, 9, 10, 11, 12, 13, 14, 15,
  16, 17, 18, 19, 20, 21, 22, 23, 24, 25, 26, 27, 28, 29, 30, 31,
  32, 33, 34, 35, 36, 37, 38, 39, 40, 41, 42, 43, 44, 45, 46, 47,
  48, 49, 50, 51, 52, 53, 54, 55, 56, 57, 58, 59, 60, 61, 62, 63,
  64, 65, 66, 67, 68, 69, 70, 71, 72, 73, 74, 75, 76, 77, 78, 79,
  80, 81, 82, 83, 84, 85, 86, 87, 88, 89, 90, 91, 92, 93, 94, 95,
  96, 97, 98, 99, 100, 101, 102, 103, 104, 105, 106, 107, 108, 109, 110, 111,
  112, 113, 114, 115, 116, 117, 118, 119, 120, 121, 122, 123, 124, 125, 126, 127,
  128, 129, 130, 131, 132, 133, 134, 135, 136, 137, 138, 139, 140, 141, 142, 143,
  144, 145, 146, 147, 148, 149, 150, 151, 152, 153, 154, 155, 156, 157, 158, 159,
  160, 161, 162, 163, 164, 165, 166, 167, 168, 169, 170, 171, 172, 173, 174, 175,
  176, 177, 178, 179, 180, 181, 182, 183, 184, 185, 186, 187, 188, 189, 190, 191,
  192, 193, 194, 195, 196, 197, 198, 199, 200, 201, 202, 203, 204, 205, 206, 207,
  208, 209, 210, 211, 212, 213, 214, 215, 216, 217, 218, 219, 220, 221, 222, 223,
  224, 225, 226, 227, 228, 229, 230, 231, 232, 233, 234, 235, 236, 237, 238, 239,
  240, 241, 242, 243, 244, 245, 246, 247, 248, 249, 250, 251, 252, 253, 254, 255,
  0, 2, 4, 6, 8, 10, 12, 14, 16, 18, 20, 22, 24, 26, 28, 30,
  32, 34, 36, 38, 40, 42, 44, 46, 48, 50, 52, 54, 56, 58, 60, 62,
  64, 66, 68, 70, 72, 74, 76, 78, 80, 82, 84, 86, 88, 90, 92, 94,
  96, 98, 100, 102, 104, 106, 108, 110, 112, 114, 116, 118, 120, 122, 124, 126,
  128, 130, 132, 134, 136, 138, 140, 142, 144, 146, 148, 150, 152, 154, 156, 158,
  160, 162, 164, 166, 168, 170, 172, 174, 176, 178, 180, 182, 184, 186, 188, 190,
  192, 194, 196, 198, 200, 202, 204, 206, 208, 210, 212, 214, 216, 218, 220, 222,
  224, 226, 228, 230, 232, 234, 236, 238, 240, 242, 244, 246, 248, 250, 252, 254,
  256, 258, 260, 262, 264, 266, 268, 270, 272, 274, 276, 278, 280, 282, 284, 286,
  288, 290, 292, 294, 296, 298, 300, 302, 304, 306, 308, 310, 312, 314, 316, 318,
  320, 322, 324, 326, 328, 330, 332, 334, 336, 338, 340, 342, 344, 346, 348, 350,
  352, 354, 356, 358, 360, 362, 364, 366, 368, 370, 372, 374, 376, 378, 380, 382,
  384, 386, 388, 390, 392, 394, 396, 398, 400, 402, 404, 406, 408, 410, 412, 414,
  416, 418, 420, 422, 424, 426, 428, 430, 432, 434, 436, 438, 440, 442, 444, 446,
  448, 450, 452, 454, 456, 458, 460, 462, 464, 466, 468, 470, 472, 474, 476, 478,
  480, 482, 484, 486, 488, 490, 492, 494, 496, 498, 500, 502, 504, 506, 508, 510,
  0, 3, 6, 5, 12, 15, 10, 9, 24, 27, 30, 29, 20, 23, 18, 17,
  48, 51, 54, 53, 60, 63, 58, 57, 40, 43, 46, 45, 36, 39, 34, 33,
  96, 99, 102, 101, 108, 111, 106, 105, 120, 123, 126, 125, 116, 119, 114, 113,
  80, 83, 86, 85, 92, 95, 90, 89, 72, 75, 78, 77, 68, 71, 66, 65,
  192, 195, 198, 197, 204, 207, 202, 201, 216, 219, 222, 221, 212, 215, 210, 209,
  240, 243, 246, 245, 252, 255, 250, 249, 232, 235, 238, 237, 228, 231, 226, 225,
  160, 163, 166, 165, 172, 175, 170, 169, 184, 187, 190, 189, 180, 183, 178, 177,
  144, 147, 150, 149, 156, 159, 154, 153, 136, 139, 142, 141, 132, 135, 130, 129,
  384, 387, 390, 389, 396, 399, 394, 393, 408, 411, 414, 413, 404, 407, 402, 401,
  432, 435, 438, 437, 444, 447, 442, 441, 424, 427, 430, 429, 420, 423, 418, 417,
  480, 483, 486, 485, 492, 495, 490, 489, 504, 507, 510, 509, 500, 503, 498, 497,
  464, 467, 470, 469, 476, 479, 474, 473, 456, 459, 462, 461, 452, 455, 450, 449,
  320, 323, 326, 325, 332, 335, 330, 329, 344, 347, 350, 349, 340, 343, 338, 337,
  368, 371, 374, 373, 380, 383, 378, 377, 360, 363, 366, 365, 356, 359, 354, 353,
  288, 291, 294, 293, 300, 303, 298, 297, 312, 315, 318, 317, 308, 311, 306, 305,
  272, 275, 278, 277, 284, 287, 282, 281, 264, 267, 270, 269, 260, 263, 258, 257,
  0, 4, 8, 12, 16, 20, 24, 28, 32, 36, 40, 44, 48, 52, 56, 60,
  64, 68, 72, 76, 80, 84, 88, 92, 96, 100, 104, 108, 112, 116, 120, 124,
  128, 132, 136, 140, 144, 148, 152, 156, 160, 164, 168, 172, 176, 180, 184, 188,
  192, 196, 200, 204, 208, 212, 216, 220, 224, 228, 232, 236, 240, 244, 248, 252,
  256, 260, 264, 268, 272, 276, 280, 284, 288, 292, 296, 300, 304, 308, 312, 316,
  320, 324, 328, 332, 336, 340, 344, 348, 352, 356, 360, 364, 368, 372, 376, 380,
  384, 388, 392, 396, 400, 404, 408, 412, 416, 420, 424, 428, 432, 436, 440, 444,
  448, 452, 456, 460, 464, 468, 472, 476, 480, 484, 488, 492, 496, 500, 504, 508,
  512, 516, 520, 524, 528, 532, 536, 540, 544, 548, 552, 556, 560, 564, 568, 572,
  576, 580, 584, 588, 592, 596, 600, 604, 608, 612, 616, 620, 624, 628, 632, 636,
  640, 644, 648, 652, 656, 660, 664, 668, 672, 676, 680, 684, 688, 692, 696, 700,
  704, 708, 712, 716, 720, 724, 728, 732, 736, 740, 744, 748, 752, 756, 760, 764,
  768, 772, 776, 780, 784, 788, 792, 796, 800, 804, 808, 812, 816, 820, 824, 828,
  832, 836, 840, 844, 848, 852, 856, 860, 864, 868, 872, 876, 880, 884, 888, 892,
  896, 900, 904, 908, 912, 916, 920, 924, 928, 932, 936, 940, 944, 948, 952, 956,
  960, 964, 968, 972, 976, 980, 984, 988, 992, 996, 1000, 1004, 1008, 1012, 1016, 1020,
  0, 5, 10, 15, 20, 17, 30, 27, 40, 45, 34, 39, 60, 57, 54, 51,
  80, 85, 90, 95, 68, 65, 78, 75, 120, 125, 114, 119, 108, 105, 102, 99,
  160, 165, 170, 175, 180, 177, 190, 187, 136, 141, 130, 135, 156, 153, 150, 147,
  240, 245, 250, 255, 228, 225, 238, 235, 216, 221, 210, 215, 204, 201, 198, 195,
  320, 325, 330, 335, 340, 337, 350, 347, 360, 365, 354, 359, 380, 377, 374, 371,
  272, 277, 282, 287, 260, 257, 270, 267, 312, 317, 306, 311, 300, 297, 294, 291,
  480, 485, 490, 495, 500, 497, 510, 507, 456, 461, 450, 455, 476, 473, 470, 467,
  432, 437, 442, 447, 420, 417, 430, 427, 408, 413, 402, 407, 396, 393, 390, 387,
  640, 645, 650, 655, 660, 657, 670, 667, 680, 685, 674, 679, 700, 697, 694, 691,
  720, 725, 730, 735, 708, 705, 718, 715, 760, 765, 754, 759, 748, 745, 742, 739,
  544, 549, 554, 559, 564, 561, 574, 571, 520, 525, 514, 519, 540, 537, 534, 531,
  624, 629, 634, 639, 612, 609, 622, 619, 600, 605, 594, 599, 588, 585, 582, 579,
  960, 965, 970, 975, 980, 977, 990, 987, 1000, 1005, 994, 999, 1020, 1017, 1014, 1011,
  912, 917, 922, 927, 900, 897, 910, 907, 952, 957, 946, 951, 940, 937, 934, 931,
  864, 869, 874, 879, 884, 881, 894, 891, 840, 845, 834, 839, 860, 857, 854, 851,
  816, 821, 826, 831, 804, 801, 814, 811, 792, 797, 786, 791, 780, 777, 774, 771,
  0, 6, 12, 10, 24, 30, 20, 18, 48, 54, 60, 58, 40, 46, 36, 34,
  96, 102, 108, 106, 120, 126, 116, 114, 80, 86, 92, 90, 72, 78, 68, 66,
  192, 198, 204, 202, 216, 222, 212, 210, 240, 246, 252, 250, 232, 238, 228, 226,
  160, 166, 172, 170, 184, 190, 180, 178, 144, 150, 156, 154, 136, 142, 132, 130,
  384, 390, 396, 394, 408, 414, 404, 402, 432, 438, 444, 442, 424, 430, 420, 418,
  480, 486, 492, 490, 504, 510, 500, 498, 464, 470, 476, 474, 456, 462, 452, 450,
  320, 326, 332, 330, 344, 350, 340, 338, 368, 374, 380, 378, 360, 366, 356, 354,
  288, 294, 300, 298, 312, 318, 308, 306, 272, 278, 284, 282, 264, 270, 260, 258,
  768, 774, 780, 778, 792, 798, 788, 786, 816, 822, 828, 826, 808, 814, 804, 802,
  864, 870, 876, 874, 888, 894, 884, 882, 848, 854, 860, 858, 840, 846, 836, 834,
  960, 966, 972, 970, 984, 990, 980, 978, 1008, 1014, 1020, 1018, 1000, 1006, 996, 994,
  928, 934, 940, 938, 952, 958, 948, 946, 912, 918, 924, 922, 904, 910, 900, 898,
  640, 646, 652, 650, 664, 670, 660, 658, 688, 694, 700, 698, 680, 686, 676, 674,
  736, 742, 748, 746, 760, 766, 756, 754, 720, 726, 732, 730, 712, 718, 708, 706,
  576, 582, 588, 586, 600, 606, 596, 594, 624, 630, 636, 634, 616, 622, 612, 610,
  544, 550, 556, 554, 568, 574, 564, 562, 528, 534, 540, 538, 520, 526, 516, 514,
  0, 7, 14, 9, 28, 27, 18, 21, 56, 63, 54, 49, 36, 35, 42, 45,
  112, 119, 126, 121, 108, 107, 98, 101, 72, 79, 70, 65, 84, 83, 90, 93,
  224, 231, 238, 233, 252, 251, 242, 245, 216, 223, 214, 209, 196, 195, 202, 205,
  144, 151, 158, 153, 140, 139, 130, 133, 168, 175, 166, 161, 180, 179, 186, 189,
  448, 455, 462, 457, 476, 475, 466, 469, 504, 511, 502, 497, 484, 483, 490, 493,
  432, 439, 446, 441, 428, 427, 418, 421, 392, 399, 390, 385, 404, 403, 410, 413,
  288, 295, 302, 297, 316, 315, 306, 309, 280, 287, 278, 273, 260, 259, 266, 269,
  336, 343, 350, 345, 332, 331, 322, 325, 360, 367, 358, 353, 372, 371, 378, 381,
  896, 903, 910, 905, 924, 923, 914, 917, 952, 959, 950, 945, 932, 931, 938, 941,
  1008, 1015, 1022, 1017, 1004, 1003, 994, 997, 968, 975, 966, 961, 980, 979, 986, 989,
  864, 871, 878, 873, 892, 891, 882, 885, 856, 863, 854, 849, 836, 835, 842, 845,
  784, 791, 798, 793, 780, 779, 770, 773, 808, 815, 806, 801, 820, 819, 826, 829,
  576, 583, 590, 585, 604, 603, 594, 597, 632, 639, 630, 625, 612, 611, 618, 621,
  560, 567, 574, 569, 556, 555, 546, 549, 520, 527, 518, 513, 532, 531, 538, 541,
  672, 679, 686, 681, 700, 699, 690, 693, 664, 671, 662, 657, 644, 643, 650, 653,
  720, 727, 734, 729, 716, 715, 706, 709, 744, 751, 742, 737, 756, 755, 762, 765,
  0, 8, 16, 24, 32, 40, 48, 56, 64, 72, 80, 88, 96, 104, 112, 120,
  128, 136, 144, 152, 160, 168, 176, 184, 192, 200, 208, 216, 224, 232, 240, 248,
  256, 264, 272, 280, 288, 296, 304, 312, 320, 328, 336, 344, 352, 360, 368, 376,
  384, 392, 400, 408, 416, 424, 432, 440, 448, 456, 464, 472, 480, 488, 496, 504,
  512, 520, 528, 536, 544, 552, 560, 568, 576, 584, 592, 600, 608, 616, 624, 632,
  640, 648, 656, 664, 672, 680, 688, 696, 704, 712, 720, 728, 736, 744, 752, 760,
  768, 776, 784, 792, 800, 808, 816, 824, 832, 840, 848, 856, 864, 872, 880, 888,
  896, 904, 912, 920, 928, 936, 944, 952, 960, 968, 976, 984, 992, 1000, 1008, 1016,
  1024, 1032, 1040, 1048, 1056, 1064, 1072, 1080, 1088, 1096, 1104, 1112, 1120, 1128, 1136, 1144,
  1152, 1160, 1168, 1176, 1184, 1192, 1200, 1208, 1216, 1224, 1232, 1240, 1248, 1256, 1264, 1272,
  1280, 1288, 1296, 1304, 1312, 1320, 1328, 1336, 1344, 1352, 1360, 1368, 1376, 1384, 1392, 1400,
  1408, 1416, 1424, 1432, 1440, 1448, 1456, 1464, 1472, 1480, 1488, 1496, 1504, 1512, 1520, 1528,
  1536, 1544, 1552, 1560, 1568, 1576, 1584, 1592, 1600, 1608, 1616, 1624, 1632, 1640, 1648, 1656,
  1664, 1672, 1680, 1688, 1696, 1704, 1712, 1720, 1728, 1736, 1744, 1752, 1760, 1768, 1776, 1784,
  1792, 1800, 1808, 1816, 1824, 1832, 1840, 1848, 1856, 1864, 1872, 1880, 1888, 1896, 1904, 1912,
  1920, 1928, 1936, 1944, 1952, 1960, 1968, 1976, 1984, 1992, 2000, 2008, 2016, 2024, 2032, 2040,
  0, 9, 18, 27, 36, 45, 54, 63, 72, 65, 90, 83, 108, 101, 126, 119,
  144, 153, 130, 139, 180, 189, 166, 175, 216, 209, 202, 195, 252, 245, 238, 231,
  288, 297, 306, 315, 260, 269, 278, 287, 360, 353, 378, 371, 332, 325, 350, 343,
  432, 441, 418, 427, 404, 413, 390, 399, 504, 497, 490, 483, 476, 469, 462, 455,
  576, 585, 594, 603, 612, 621, 630, 639, 520, 513, 538, 531, 556, 549, 574, 567,
  720, 729, 706, 715, 756, 765, 742, 751, 664, 657, 650, 643, 700, 693, 686, 679,
  864, 873, 882, 891, 836, 845, 854, 863, 808, 801, 826, 819, 780, 773, 798, 791,
  1008, 1017, 994, 1003, 980, 989, 966, 975, 952, 945, 938, 931, 924, 917, 910, 903,
  1152, 1161, 1170, 1179, 1188, 1197, 1206, 1215, 1224, 1217, 1242, 1235, 1260, 1253, 1278, 1271,
  1040, 1049, 1026, 1035, 1076, 1085, 1062, 1071, 1112, 1105, 1098, 1091, 1148, 1141, 1134, 1127,
  1440, 1449, 1458, 1467, 1412, 1421, 1430, 1439, 1512, 1505, 1530, 1523, 1484, 1477, 1502, 1495,
  1328, 1337, 1314, 1323, 1300, 1309, 1286, 1295, 1400, 1393, 1386, 1379, 1372, 1365, 1358, 1351,
  1728, 1737, 1746, 1755, 1764, 1773, 1782, 1791, 1672, 1665, 1690, 1683, 1708, 1701, 1726, 1719,
  1616, 1625, 1602, 1611, 1652, 1661, 1638, 1647, 1560, 1553, 1546, 1539, 1596, 1589, 1582, 1575,
  2016, 2025, 2034, 2043, 1988, 1997, 2006, 2015, 1960, 1953, 1978, 1971, 1932, 1925, 1950, 1943,
  1904, 1913, 1890, 1899, 1876, 1885, 1862, 1871, 1848, 1841, 1834, 1827, 1820, 1813, 1806, 1799,
  0, 10, 20, 30, 40, 34, 60, 54, 80, 90, 68, 78, 120, 114, 108, 102,
  160, 170, 180, 190, 136, 130, 156, 150, 240, 250, 228, 238, 216, 210, 204, 198,
  320, 330, 340, 350, 360, 354, 380, 374, 272, 282, 260, 270, 312, 306, 300, 294,
  480, 490, 500, 510, 456, 450, 476, 470, 432, 442, 420, 430, 408, 402, 396, 390,
  640, 650, 660, 670, 680, 674, 700, 694, 720, 730, 708, 718, 760, 754, 748, 742,
  544, 554, 564, 574, 520, 514, 540, 534, 624, 634, 612, 622, 600, 594, 588, 582,
  960, 970, 980, 990, 1000, 994, 1020, 1014, 912, 922, 900, 910, 952, 946, 940, 934,
  864, 874, 884, 894, 840, 834, 860, 854, 816, 826, 804, 814, 792, 786, 780, 774,
  1280, 1290, 1300, 1310, 1320, 1314, 1340, 1334, 1360, 1370, 1348, 1358, 1400, 1394, 1388, 1382,
  1440, 1450, 1460, 1470, 1416, 1410, 1436, 1430, 1520, 1530, 1508, 1518, 1496, 1490, 1484, 1478,
  1088, 1098, 1108, 1118, 1128, 1122, 1148, 1142, 1040, 1050, 1028, 1038, 1080, 1074, 1068, 1062,
  1248, 1258, 1268, 1278, 1224, 1218, 1244, 1238, 1200, 1210, 1188, 1198, 1176, 1170, 1164, 1158,
  1920, 1930, 1940, 1950, 1960, 1954, 1980, 1974, 2000, 2010, 1988, 1998, 2040, 2034, 2028, 2022,
  1824, 1834, 1844, 1854, 1800, 1794, 1820, 1814, 1904, 1914, 1892, 1902, 1880, 1874, 1868, 1862,
  1728, 1738, 1748, 1758, 1768, 1762, 1788, 1782, 1680, 1690, 1668, 1678, 1720, 1714, 1708, 1702,
  1632, 1642, 1652, 1662, 1608, 1602, 1628, 1622, 1584, 1594, 1572, 1582, 1560, 1554, 1548, 1542,
  0, 11, 22, 29, 44, 39, 58, 49, 88, 83, 78, 69, 116, 127, 98, 105,
  176, 187, 166, 173, 156, 151, 138, 129, 232, 227, 254, 245, 196, 207, 210, 217,
  352, 363, 374, 381, 332, 327, 346, 337, 312, 307, 302, 293, 276, 287, 258, 265,
  464, 475, 454, 461, 508, 503, 490, 481, 392, 387, 414, 405, 420, 431, 434, 441,
  704, 715, 726, 733, 748, 743, 762, 753, 664, 659, 654, 645, 692, 703, 674, 681,
  624, 635, 614, 621, 604, 599, 586, 577, 552, 547, 574, 565, 516, 527, 530, 537,
  928, 939, 950, 957, 908, 903, 922, 913, 1016, 1011, 1006, 997, 980, 991, 962, 969,
  784, 795, 774, 781, 828, 823, 810, 801, 840, 835, 862, 853, 868, 879, 882, 889,
  1408, 1419, 1430, 1437, 1452, 1447, 1466, 1457, 1496, 1491, 1486, 1477, 1524, 1535, 1506, 1513,
  1328, 1339, 1318, 1325, 1308, 1303, 1290, 1281, 1384, 1379, 1406, 1397, 1348, 1359, 1362, 1369,
  1248, 1259, 1270, 1277, 1228, 1223, 1242, 1233, 1208, 1203, 1198, 1189, 1172, 1183, 1154, 1161,
  1104, 1115, 1094, 1101, 1148, 1143, 1130, 1121, 1032, 1027, 1054, 1045, 1060, 1071, 1074, 1081,
  1856, 1867, 1878, 1885, 1900, 1895, 1914, 1905, 1816, 1811, 1806, 1797, 1844, 1855, 1826, 1833,
  2032, 2043, 2022, 2029, 2012, 2007, 1994, 1985, 1960, 1955, 1982, 1973, 1924, 1935, 1938, 1945,
  1568, 1579, 1590, 1597, 1548, 1543, 1562, 1553, 1656, 1651, 1646, 1637, 1620, 1631, 1602, 1609,
  1680, 1691, 1670, 1677, 1724, 1719, 1706, 1697, 1736, 1731, 1758, 1749, 1764, 1775, 1778, 1785,
  0, 12, 24, 20, 48, 60, 40, 36, 96, 108, 120, 116, 80, 92, 72, 68,
  192, 204, 216, 212, 240, 252, 232, 228, 160, 172, 184, 180, 144, 156, 136, 132,
  384, 396, 408, 404, 432, 444, 424, 420, 480, 492, 504, 500, 464, 476, 456, 452,
  320, 332, 344, 340, 368, 380, 360, 356, 288, 300, 312, 308, 272, 284, 264, 260,
  768, 780, 792, 788, 816, 828, 808, 804, 864, 876, 888, 884, 848, 860, 840, 836,
  960, 972, 984, 980, 1008, 1020, 1000, 996, 928, 940, 952, 948, 912, 924, 904, 900,
  640, 652, 664, 660, 688, 700, 680, 676, 736, 748, 760, 756, 720, 732, 712, 708,
  576, 588, 600, 596, 624, 636, 616, 612, 544, 556, 568, 564, 528, 540, 520, 516,
  1536, 1548, 1560, 1556, 1584, 1596, 1576, 1572, 1632, 1644, 1656, 1652, 1616, 1628, 1608, 1604,
  1728, 1740, 1752, 1748, 1776, 1788, 1768, 1764, 1696, 1708, 1720, 1716, 1680, 1692, 1672, 1668,
  1920, 1932, 1944, 1940, 1968, 1980, 1960, 1956, 2016, 2028, 2040, 2036, 2000, 2012, 1992, 1988,
  1856, 1868, 1880, 1876, 1904, 1916, 1896, 1892, 1824, 1836, 1848, 1844, 1808, 1820, 1800, 1796,
  1280, 1292, 1304, 1300, 1328, 1340, 1320, 1316, 1376, 1388, 1400, 1396, 1360, 1372, 1352, 1348,
  1472, 1484, 1496, 1492, 1520, 1532, 1512, 1508, 1440, 1452, 1464, 1460, 1424, 1436, 1416, 1412,
  1152, 1164, 1176, 1172, 1200, 1212, 1192, 1188, 1248, 1260, 1272, 1268, 1232, 1244, 1224, 1220,
  1088, 1100, 1112, 1108, 1136, 1148, 1128, 1124, 1056, 1068, 1080, 1076, 1040, 1052, 1032, 1028,
  0, 13, 26, 23, 52, 57, 46, 35, 104, 101, 114, 127, 92, 81, 70, 75,
  208, 221, 202, 199, 228, 233, 254, 243, 184, 181, 162, 175, 140, 129, 150, 155,
  416, 429, 442, 439, 404, 409, 398, 387, 456, 453, 466, 479, 508, 497, 486, 491,
  368, 381, 362, 359, 324, 329, 350, 339, 280, 277, 258, 271, 300, 289, 310, 315,
  832, 845, 858, 855, 884, 889, 878, 867, 808, 805, 818, 831, 796, 785, 774, 779,
  912, 925, 906, 903, 932, 937, 958, 947, 1016, 1013, 994, 1007, 972, 961, 982, 987,
  736, 749, 762, 759, 724, 729, 718, 707, 648, 645, 658, 671, 700, 689, 678, 683,
  560, 573, 554, 551, 516, 521, 542, 531, 600, 597, 578, 591, 620, 609, 630, 635,
  1664, 1677, 1690, 1687, 1716, 1721, 1710, 1699, 1768, 1765, 1778, 1791, 1756, 1745, 1734, 1739,
  1616, 1629, 1610, 1607, 1636, 1641, 1662, 1651, 1592, 1589, 1570, 1583, 1548, 1537, 1558, 1563,
  1824, 1837, 1850, 1847, 1812, 1817, 1806, 1795, 1864, 1861, 1874, 1887, 1916, 1905, 1894, 1899,
  2032, 2045, 2026, 2023, 1988, 1993, 2014, 2003, 1944, 1941, 1922, 1935, 1964, 1953, 1974, 1979,
  1472, 1485, 1498, 1495, 1524, 1529, 1518, 1507, 1448, 1445, 1458, 1471, 1436, 1425, 1414, 1419,
  1296, 1309, 1290, 1287, 1316, 1321, 1342, 1331, 1400, 1397, 1378, 1391, 1356, 1345, 1366, 1371,
  1120, 1133, 1146, 1143, 1108, 1113, 1102, 1091, 1032, 1029, 1042, 1055, 1084, 1073, 1062, 1067,
  1200, 1213, 1194, 1191, 1156, 1161, 1182, 1171, 1240, 1237, 1218, 1231, 1260, 1249, 1270, 1275,
  0, 14, 28, 18, 56, 54, 36, 42, 112, 126, 108, 98, 72, 70, 84, 90,
  224, 238, 252, 242, 216, 214, 196, 202, 144, 158, 140, 130, 168, 166, 180, 186,
  448, 462, 476, 466, 504, 502, 484, 490, 432, 446, 428, 418, 392, 390, 404, 410,
  288, 302, 316, 306, 280, 278, 260, 266, 336, 350, 332, 322, 360, 358, 372, 378,
  896, 910, 924, 914, 952, 950, 932, 938, 1008, 1022, 1004, 994, 968, 966, 980, 986,
  864, 878, 892, 882, 856, 854, 836, 842, 784, 798, 780, 770, 808, 806, 820, 826,
  576, 590, 604, 594, 632, 630, 612, 618, 560, 574, 556, 546, 520, 518, 532, 538,
  672, 686, 700, 690, 664, 662, 644, 650, 720, 734, 716, 706, 744, 742, 756, 762,
  1792, 1806, 1820, 1810, 1848, 1846, 1828, 1834, 1904, 1918, 1900, 1890, 1864, 1862, 1876, 1882,
  2016, 2030, 2044, 2034, 2008, 2006, 1988, 1994, 1936, 1950, 1932, 1922, 1960, 1958, 1972, 1978,
  1728, 1742, 1756, 1746, 1784, 1782, 1764, 1770, 1712, 1726, 1708, 1698, 1672, 1670, 1684, 1690,
  1568, 1582, 1596, 1586, 1560, 1558, 1540, 1546, 1616, 1630, 1612, 1602, 1640, 1638, 1652, 1658,
  1152, 1166, 1180, 1170, 1208, 1206, 1188, 1194, 1264, 1278, 1260, 1250, 1224, 1222, 1236, 1242,
  1120, 1134, 1148, 1138, 1112, 1110, 1092, 1098, 1040, 1054, 1036, 1026, 1064, 1062, 1076, 1082,
  1344, 1358, 1372, 1362, 1400, 1398, 1380, 1386, 1328, 1342, 1324, 1314, 1288, 1286, 1300, 1306,
  1440, 1454, 1468, 1458, 1432, 1430, 1412, 1418, 1488, 1502, 1484, 1474, 1512, 1510, 1524, 1530,
  0, 15, 30, 17, 60, 51, 34, 45, 120, 119, 102, 105, 68, 75, 90, 85,
  240, 255, 238, 225, 204, 195, 210, 221, 136, 135, 150, 153, 180, 187, 170, 165,
  480, 495, 510, 497, 476, 467, 450, 461, 408, 407, 390, 393, 420, 427, 442, 437,
  272, 287, 270, 257, 300, 291, 306, 317, 360, 359, 374, 377, 340, 347, 330, 325,
  960, 975, 990, 977, 1020, 1011, 994, 1005, 952, 951, 934, 937, 900, 907, 922, 917,
  816, 831, 814, 801, 780, 771, 786, 797, 840, 839, 854, 857, 884, 891, 874, 869,
  544, 559, 574, 561, 540, 531, 514, 525, 600, 599, 582, 585, 612, 619, 634, 629,
  720, 735, 718, 705, 748, 739, 754, 765, 680, 679, 694, 697, 660, 667, 650, 645,
  1920, 1935, 1950, 1937, 1980, 1971, 1954, 1965, 2040, 2039, 2022, 2025, 1988, 1995, 2010, 2005,
  1904, 1919, 1902, 1889, 1868, 1859, 1874, 1885, 1800, 1799, 1814, 1817, 1844, 1851, 1834, 1829,
  1632, 1647, 1662, 1649, 1628, 1619, 1602, 1613, 1560, 1559, 1542, 1545, 1572, 1579, 1594, 1589,
  1680, 1695, 1678, 1665, 1708, 1699, 1714, 1725, 1768, 1767, 1782, 1785, 1748, 1755, 1738, 1733,
  1088, 1103, 1118, 1105, 1148, 1139, 1122, 1133, 1080, 1079, 1062, 1065, 1028, 1035, 1050, 1045,
  1200, 1215, 1198, 1185, 1164, 1155, 1170, 1181, 1224, 1223, 1238, 1241, 1268, 1275, 1258, 1253,
  1440, 1455, 1470, 1457, 1436, 1427, 1410, 1421, 1496, 1495, 1478, 1481, 1508, 1515, 1530, 1525,
  1360, 1375, 1358, 1345, 1388, 1379, 1394, 1405, 1320, 1319, 1334, 1337, 1300, 1307, 1290, 1285
>>

\* fn rmull indexing the table as its comment words it,
\* MULL[(byte << 4) | nibble]
rmull_byte_first(big, small) == MULL[Xor(Shl(big, 4, 16), small) + 1]

\* fn rmull: the small nibble in the low position
rmull(big, small) == MULL[Xor(Shl(small, 8, 16), big) + 1]

\* fn lmull: the small nibble in the high position
lmull(big, small) == Shl(MULL[Xor(Shl(small, 8, 16), big) + 1], 4, 16)

(***************************************************************************)
(* src/good.rs.  A Vec is a sequence; entry k of the Vec is v[k + 1].      *)
(***************************************************************************)

\* v[k] with the bounds check of safe indexing
index(v, k) == IF k >= 0 /\ k < Len(v) THEN v[k + 1] ELSE Panic

\* *v.get_unchecked(k): out of bounds the read is undefined behaviour and
\* yields whatever value `garbage` stands for.
get_unchecked(v, k, garbage) ==
    IF k >= 0 /\ k < Len(v) THEN v[k + 1] ELSE garbage

\* The values an out-of-bounds read of a w-bit entry is allowed to produce
\* in the model: the extremes of the type and two in between.
GarbageValues(w) == {0, 1, 2 ^ (w - 1), 2 ^ w - 1}

\* Classes of the optimised fields
F4_0x13 ==
    [name |-> "F4_0x13", EBits |-> 8, EEBits |-> 8,
     ORDER |-> 4, POLY_BIT |-> 16, FIELD_MASK |-> 15, HIGH_BIT |-> 8]

F8_0x11b ==
    [name |-> "F8_0x11b", EBits |-> 8, EEBits |-> 16,
     ORDER |-> 8, POLY_BIT |-> 256, FIELD_MASK |-> 255, HIGH_BIT |-> 128]

F16_0x1002b ==
    [name |-> "F16_0x1002b", EBits |-> 16, EEBits |-> 32,
     ORDER |-> 16, POLY_BIT |-> 65536, FIELD_MASK |-> 65535, HIGH_BIT |-> 32768]

\* FullMulLUT::new: the products f.mul(a, b) pushed row by row, a the row
\* and b the column, each running over 0 ..= max
FullMulLUT_new(f) ==
    LET max == (2 ^ f.G.ORDER) - 1
    IN  [G |-> f.G,
         table |-> [k \in 1..((max + 1) * (max + 1)) |->
                      GaloisField_mul(f, (k - 1) \div (max + 1),
                                         (k - 1) % (max + 1))]]

\* FullMulLUT::mul with the row shifted one bit short
FullMulLUT_mul_short(lut, a, b) ==
    index(lut.table, (a * (2 ^ (lut.G.ORDER - 1))) + b)

\* FullMulLUT::mul
FullMulLUT_mul(lut, a, b) ==
    index(lut.table, (a * (2 ^ lut.G.ORDER)) + b)

\* fill_inverse without the push of 0 for the element 0
fill_inverse_nozero(f, v, max) ==
    [k \in 1..(Len(v) + max) |->
        IF k <= Len(v) THEN v[k]
        ELSE GaloisField_inv(f, k - Len(v))]

\* fn fill_inverse: 0 first, then f.inv(elem) for elem = 1 .. max, pushed
\* in that order; entry k of the Vec is the k-th value pushed.
fill_inverse(f, v, max) ==
    [k \in 1..(Len(v) + max + 1) |->
        IF k <= Len(v) THEN v[k]
        ELSE IF k = Len(v) + 1 THEN 0
        ELSE GaloisField_inv(f, k - Len(v) - 1)]

\* vec![x; n]
RECURSIVE Repeat(_, _)
Repeat(x, n) ==
    IF n = 0 THEN <<>>
    ELSE IF n = 1 THEN <<x>>
    ELSE Repeat(x, n \div 2) \o Repeat(x, n - (n \div 2))

\* v[k] = x on a Vec (a write past the end panics)
store(v, k, x) == [v EXCEPT ![k + 1] = x]

(***************************************************************************)
(* BigLogExpTables::new(f, g), one step per straight-line block or loop    *)
(* iteration.  The frame holds the locals of the call:                     *)
(*   at      where the call stands                                         *)
(*   exp     the exp Vec, cap its reserved capacity, moved whether a push  *)
(*           has outgrown the capacity after exp_entry was taken           *)
(*   log     the log Vec                                                   *)
(*   exp_entry  the index into exp that the biased pointer points at       *)
(*   i, ei, p   the loop counter, the next log value, the running product  *)
(*   n       iterations done of the second loop                            *)
(***************************************************************************)
new_entry ==
    [at |-> "entry", exp |-> <<>>, cap |-> 0, moved |-> FALSE, log |-> <<>>,
     exp_entry |-> 0, i |-> 0, ei |-> 0, p |-> 0, n |-> 0]

\* exp.push(x): the buffer moves when the push exceeds the capacity
push(fr, x) ==
    [fr EXCEPT !.exp = Append(fr.exp, x),
               !.moved = fr.moved \/ (fr.exp_entry > 0 /\ Len(fr.exp) >= fr.cap)]

\* log[k] = x: a checked write
log_store(fr, k, x) ==
    IF k >= 0 /\ k < Len(fr.log)
    THEN [fr EXCEPT !.log = store(fr.log, k, x)]
    ELSE [fr EXCEPT !.at = "panic"]

\* The iteration pushing the running product before it is multiplied
new_loop_pushfirst(f, g, fr) ==
    IF fr.p = 1
    THEN [fr EXCEPT !.at = "panic"]
    ELSE
      LET p1 == GaloisField_mul(f, fr.p, g)
          f1 == push(fr, fr.p)
          f2 == log_store(f1, p1, fr.ei)
      IN  IF f2.at = "panic" THEN f2
          ELSE [f2 EXCEPT !.p = p1, !.i = fr.i + 1, !.ei = fr.ei + 1,
                          !.at = IF fr.i + 1 = 2 ^ f.G.ORDER
                                 THEN "check" ELSE "loop"]

\* The iteration counting ei up before the log is stored
new_loop_offbyone(f, g, fr) ==
    IF fr.p = 1
    THEN [fr EXCEPT !.at = "panic"]
    ELSE
      LET p1 == GaloisField_mul(f, fr.p, g)
          f1 == push(fr, p1)
          f2 == log_store(f1, p1, fr.ei + 1)
      IN  IF f2.at = "panic" THEN f2
          ELSE [f2 EXCEPT !.p = p1, !.i = fr.i + 1, !.ei = fr.ei + 1,
                          !.at = IF fr.i + 1 = 2 ^ f.G.ORDER
                                 THEN "check" ELSE "loop"]

\* The iteration without the panic on a running product of one
new_loop_nopanic(f, g, fr) ==
    LET p1 == GaloisField_mul(f, fr.p, g)
        f1 == push(fr, p1)
        f2 == log_store(f1, p1, fr.ei)
    IN  IF f2.at = "panic" THEN f2
        ELSE [f2 EXCEPT !.p = p1, !.i = fr.i + 1, !.ei = fr.ei + 1,
                        !.at = IF fr.i + 1 = 2 ^ f.G.ORDER
                               THEN "check" ELSE "loop"]

\* One iteration of the `loop` that fills the log table: the panic on a
\* running product of one, then the multiplication, the push and the store.
new_loop(f, g, fr) ==
    IF fr.p = 1
    THEN [fr EXCEPT !.at = "panic"]    \* "{} is not a generator for this field"
    ELSE
      LET p1 == GaloisField_mul(f, fr.p, g)
          f1 == push(fr, p1)
          f2 == log_store(f1, p1, fr.ei)
      IN  IF f2.at = "panic" THEN f2
          ELSE [f2 EXCEPT !.p = p1, !.i = fr.i + 1, !.ei = fr.ei + 1,
                          !.at = IF fr.i + 1 = 2 ^ f.G.ORDER
                                 THEN "check" ELSE "loop"]

\* The call with the exp Vec reserved for 3 * log_size entries only
new_step_smallcap(f, g, fr) ==
    LET log_size == 2 ^ f.G.ORDER
        exp_size == log_size * 4
    IN
    CASE fr.at = "entry" ->
           \* allocate three quarters of exp_size, push 2 * log_size zeros
           [fr EXCEPT !.at = "first",
                      !.cap = log_size * 3,
                      !.exp = Repeat(0, log_size * 2),
                      !.log = Repeat(0, log_size),
                      !.exp_entry = log_size * 2]
      [] fr.at = "first" ->
           \* exp 0 = 1, log 0 = -log_size, exp 1 = g, log g = 1
           LET f1 == push(fr, 1)
               f2 == log_store(f1, 0, 0 - log_size)
               f3 == push(f2, g)
               f4 == log_store(f3, 0 + g, 1)
           IN  IF f4.at = "panic" THEN f4
               ELSE [f4 EXCEPT !.at = "loop", !.i = 2, !.ei = 2, !.p = g]
      [] fr.at = "loop" -> new_loop(f, g, fr)
      [] fr.at = "check" ->
           \* assert_eq!(p, one) before the second run of powers
           IF fr.p # 1 THEN [fr EXCEPT !.at = "panic"]
           ELSE [fr EXCEPT !.at = IF log_size - 1 > 0 THEN "again" ELSE "last",
                           !.n = 0]
      [] fr.at = "again" ->
           LET p1 == GaloisField_mul(f, fr.p, g)
               f1 == push(fr, p1)
           IN  [f1 EXCEPT !.p = p1, !.n = fr.n + 1,
                          !.at = IF fr.n + 1 = log_size - 1
                                 THEN "last" ELSE "again"]
      [] fr.at = "last" ->
           \* assert_eq!(p, one); push the final zero; assert the length
           IF fr.p # 1 THEN [fr EXCEPT !.at = "panic"]
           ELSE LET f1 == push(fr, 0)
                IN  IF Len(f1.exp) # exp_size
                    THEN [f1 EXCEPT !.at = "panic"]
                    ELSE [f1 EXCEPT !.at = "done"]
      [] OTHER -> fr


\* One step of the call, from where the frame stands
new_step(f, g, fr) ==
    LET log_size == 2 ^ f.G.ORDER
        exp_size == log_size * 4
    IN
    CASE fr.at = "entry" ->
           \* allocate, push 2 * log_size zeros, take the biased pointer
           [fr EXCEPT !.at = "first",
                      !.cap = exp_size,
                      !.exp = Repeat(0, log_size * 2),
                      !.log = Repeat(0, log_size),
                      !.exp_entry = log_size * 2]
      [] fr.at = "first" ->
           \* exp 0 = 1, log 0 = -log_size, exp 1 = g, log g = 1
           LET f1 == push(fr, 1)
               f2 == log_store(f1, 0, 0 - log_size)
               f3 == push(f2, g)
               f4 == log_store(f3, 0 + g, 1)
           IN  IF f4.at = "panic" THEN f4
               ELSE [f4 EXCEPT !.at = "loop", !.i = 2, !.ei = 2, !.p = g]
      [] fr.at = "loop" -> new_loop(f, g, fr)
      [] fr.at = "check" ->
           \* assert_eq!(p, one) before the second run of powers
           IF fr.p # 1 THEN [fr EXCEPT !.at = "panic"]
           ELSE [fr EXCEPT !.at = IF log_size - 1 > 0 THEN "again" ELSE "last",
                           !.n = 0]
      [] fr.at = "again" ->
           LET p1 == GaloisField_mul(f, fr.p, g)
               f1 == push(fr, p1)
           IN  [f1 EXCEPT !.p = p1, !.n = fr.n + 1,
                          !.at = IF fr.n + 1 = log_size - 1
                                 THEN "last" ELSE "again"]
      [] fr.at = "last" ->
           \* assert_eq!(p, one); push the final zero; assert the length
           IF fr.p # 1 THEN [fr EXCEPT !.at = "panic"]
           ELSE LET f1 == push(fr, 0)
                IN  IF Len(f1.exp) # exp_size
                    THEN [f1 EXCEPT !.at = "panic"]
                    ELSE [f1 EXCEPT !.at = "done"]
      [] OTHER -> fr

\* n steps of the call
RECURSIVE new_steps(_, _, _, _)
new_steps(f, g, fr, n) ==
    IF n = 0 THEN fr
    ELSE IF n = 1 THEN new_step(f, g, fr)
    ELSE LET half == new_steps(f, g, fr, n \div 2)
         IN  IF half.at \in {"done", "panic"} THEN half
             ELSE new_steps(f, g, half, n - (n \div 2))

\* The call run to its end: it takes fewer than 2 * log_size + 4 steps
new_run(f, g, fr) == new_steps(f, g, fr, 2 * (2 ^ f.G.ORDER) + 4)

\* The value BigLogExpTables::new returns (when it returns)
tables_of(G, fr) ==
    [G |-> G, log |-> fr.log, exp |-> fr.exp, exp_entry |-> fr.exp_entry]

BigLogExpTables_new(f, g) == tables_of(f.G, new_run(f, g, new_entry))

\* The value an undefined read stands for inside the table methods
Undef == -3

\* The raw read taken from the start of exp instead of the biased pointer
exp_at_unbiased(t, k) == get_unchecked(t.exp, k, Undef)

\* *(exp_entry.offset(k)): a raw read, k entries from the biased pointer
exp_at(t, k) == get_unchecked(t.exp, t.exp_entry + k, Undef)

\* *log.get_unchecked(a)
log_at(t, a) == get_unchecked(t.log, a, Undef)

\* x % m on isize: the remainder has the sign of x
Rem(x, m) == IF x < 0 THEN 0 - ((0 - x) % m) ELSE x % m

\* BigLogExpTables::mul with the sum of the logs reduced modulo 2^k - 1
\* instead of read from the doubled exp table
BigLogExpTables_mul_wrapped(t, a, b) ==
    LET log_a == log_at(t, a)
        log_b == log_at(t, b)
    IN  IF log_a = Undef \/ log_b = Undef THEN Undef
        ELSE exp_at(t, Rem(log_a + log_b, (2 ^ t.G.ORDER) - 1))

\* BigLogExpTables::mul
BigLogExpTables_mul(t, a, b) ==
    LET log_a == log_at(t, a)
        log_b == log_at(t, b)
    IN  IF log_a = Undef \/ log_b = Undef THEN Undef
        ELSE exp_at(t, log_a + log_b)

\* BigLogExpTables::inv with log_top one too large
BigLogExpTables_inv_top(t, a) ==
    LET log_top == 2 ^ t.G.ORDER
        log_a   == log_at(t, a)
    IN  IF log_a = Undef THEN Undef
        ELSE exp_at(t, log_top - log_a)

\* BigLogExpTables::inv
BigLogExpTables_inv(t, a) ==
    LET log_top == (2 ^ t.G.ORDER) - 1
        log_a   == log_at(t, a)
    IN  IF log_a = Undef THEN Undef
        ELSE exp_at(t, log_top - log_a)

\* BigLogExpTables::pow with a remainder that is never negative
BigLogExpTables_pow_floored(t, a, b) ==
    LET log_top == (2 ^ t.G.ORDER) - 1
        log_a   == log_at(t, a)
    IN  IF log_a = Undef THEN Undef
        ELSE exp_at(t, (log_a * b) % log_top)

\* BigLogExpTables::pow
BigLogExpTables_pow(t, a, b) ==
    LET log_top == (2 ^ t.G.ORDER) - 1
        log_a   == log_at(t, a)
    IN  IF log_a = Undef THEN Undef
        ELSE exp_at(t, Rem(log_a * b, log_top))

(***************************************************************************)
(* BytewiseReduceTable<G>                                                  *)
(***************************************************************************)
\* BytewiseReduceTable::new: entry k is mod_reduce(k * delta), delta = 1 << ORDER
BytewiseReduceTable_new(f) ==
    LET delta == Shl(1, f.G.ORDER, f.G.EEBits)
    IN  [G |-> f.G,
         reduce |-> [k \in 1..256 |-> mod_reduce(f, (k - 1) * delta)]]

\* BytewiseReduceTable::mod_shift_left_8
mod_shift_left_8(r, a, garbage) ==
    LET shr  == r.G.ORDER - 8
        mask == get_unchecked(r.reduce, Shr(a, shr), garbage)
    IN  IF r.G.ORDER <= 8 THEN mask
        ELSE Xor(Shl(a, 8, r.G.EBits), mask)

\* BytewiseReduceTable::mod_reduce_bytewise
RECURSIVE mod_reduce_bytewise_loop(_, _, _)
mod_reduce_bytewise_loop(r, a, steps) ==
    IF steps = 0 THEN a
    ELSE
      LET shr        == r.G.ORDER * 2 - 8
          half_shift == r.G.ORDER
          mask       == index(r.reduce, Shr(a, shr))
      IN  IF mask = Panic THEN Panic
          ELSE mod_reduce_bytewise_loop(
                   r,
                   Xor(Shl(a, 8, r.G.EEBits), Shl(mask, half_shift, r.G.EEBits)),
                   steps - 1)

\* mod_reduce_bytewise that looks up the high byte and drops the low byte
mod_reduce_bytewise_high(r, a) == index(r.reduce, Shr(a, r.G.ORDER))

mod_reduce_bytewise(r, a) ==
    LET a1 == mod_reduce_bytewise_loop(r, a, Shr(r.G.ORDER, 3))
        a2 == Shr(a1, r.G.ORDER)
    IN  IF a1 = Panic THEN Panic
        ELSE IF a2 >= 2 ^ r.G.EBits THEN Panic      \* try_into().unwrap_or_else
        ELSE a2

\* F16_0x1002b::mul; g1 and g2 are what the two raw table reads yield
\* should they fall outside the table.
F16_0x1002b_mul(r, a, b, g1, g2) ==
    LET a3 == And(Shr(a, 12), 15)
        a2 == And(Shr(a, 8), 15)
        a1 == And(Shr(a, 4), 15)
        a0 == And(a, 15)
        b1 == And(Shr(b, 8), 255)
        b0 == And(b, 255)
        c1 == Xor(lmull(b1, a3), rmull(b1, a2))
        c2 == mod_shift_left_8(r, c1, g1)
        c3 == Xor(Xor(c2, lmull(b0, a3)), rmull(b0, a2))
        c4 == Xor(Xor(c3, lmull(b1, a1)), rmull(b1, a0))
        c5 == mod_shift_left_8(r, c4, g2)
    IN  Xor(Xor(c5, lmull(b0, a1)), rmull(b0, a0))

(***************************************************************************)
(* Field objects and method dispatch.  A field object carries impl, the    *)
(* type that implements GaloisField for it, and that type's data.          *)
(***************************************************************************)
new_gf4_0x13 ==
    LET f == new_gf4(19, 3)
    IN  [impl |-> "F4_0x13", G |-> F4_0x13, full |-> 19, compact |-> 3,
         mul_lut |-> FullMulLUT_new(f),
         inv_lut |-> fill_inverse(f, <<>>, 15)]

new_gf8_0x11b ==
    LET f == new_gf8(283, 27)
        t == new_run(f, 3, new_entry)
    IN  [impl |-> IF t.at = "done" /\ index(t.log, 0) = -256
                  THEN "F8_0x11b" ELSE "panic",
         G |-> F8_0x11b, full |-> 283, compact |-> 27,
         tables |-> tables_of(f.G, t)]

mul(f, a, b) ==
    CASE f.impl = "F4_0x13"  -> FullMulLUT_mul(f.mul_lut, a, b)
      [] f.impl = "F8_0x11b" -> BigLogExpTables_mul(f.tables, a, b)
      [] OTHER               -> GaloisField_mul(f, a, b)

inv(f, a) ==
    CASE f.impl = "F4_0x13"  -> index(f.inv_lut, a)
      [] f.impl = "F8_0x11b" -> BigLogExpTables_inv(f.tables, a)
      [] OTHER               -> GaloisField_inv(f, a)

\* fn div (default): a * inv(b)
div(f, a, b) ==
    LET ib == inv(f, b)
    IN  IF ib < 0 THEN ib ELSE mul(f, a, ib)

\* fn pow (default): square and multiply with self.mul
RECURSIVE pow_reduce(_, _)
pow_reduce(b, m) == IF b >= m THEN pow_reduce(b - m, m) ELSE b

RECURSIVE pow_loop(_, _, _, _, _)
pow_loop(f, a, b, mask, result) ==
    LET mask1 == Shr(mask, 1)
        r1    == mul(f, result, result)
        r2    == IF And(b, mask1) # 0 THEN mul(f, r1, a) ELSE r1
    IN  IF mask1 = 0 THEN result
        ELSE IF r2 < 0 THEN r2      \* a mul that does not return a value
        ELSE pow_loop(f, a, b, mask1, r2)

\* fn pow with the exponent reduced while it is above the field mask, so
\* that an exponent of 2^k - 1 stays as it is
GaloisField_pow_gt(f, a, b) ==
    LET b1   == IF b = 0 THEN 0 ELSE pow_reduce(b - 1, f.G.FIELD_MASK) + 1
        clz  == leading_zeros(b1, f.G.EEBits)
        bits == leading_zeros(0, f.G.EEBits)
    IN  IF b1 = 0 THEN 1
        ELSE pow_loop(f, a, b1, Shl(1, bits - clz - 1, f.G.EEBits), a)

\* fn pow with the exponent reduced modulo the field size 2^k instead of
\* the group order 2^k - 1
GaloisField_pow_size(f, a, b) ==
    LET b1   == pow_reduce(b, f.G.FIELD_MASK + 1)
        clz  == leading_zeros(b1, f.G.EEBits)
        bits == leading_zeros(0, f.G.EEBits)
    IN  IF b1 = 0 THEN 1
        ELSE pow_loop(f, a, b1, Shl(1, bits - clz - 1, f.G.EEBits), a)

\* fn pow with the mask starting on the highest bit of b instead of the bit
\* below it
GaloisField_pow_topbit(f, a, b) ==
    LET b1   == pow_reduce(b, f.G.FIELD_MASK)
        clz  == leading_zeros(b1, f.G.EEBits)
        bits == leading_zeros(0, f.G.EEBits)
    IN  IF b1 = 0 THEN 1
        ELSE pow_loop(f, a, b1, Shl(1, bits - clz, f.G.EEBits), a)

GaloisField_pow(f, a, b) ==
    LET b1   == pow_reduce(b, f.G.FIELD_MASK)
        clz  == leading_zeros(b1, f.G.EEBits)
        bits == leading_zeros(0, f.G.EEBits)
    IN  IF b1 = 0 THEN 1
        ELSE pow_loop(f, a, b1, Shl(1, bits - clz - 1, f.G.EEBits), a)

pow(f, a, b) ==
    CASE f.impl = "F8_0x11b" -> BigLogExpTables_pow(f.tables, a, b)
      [] OTHER               -> GaloisField_pow(f, a, b)

\* new_gf16_0x1002b: the reduce table; the 65536-entry inverse Vec is
\* F16_0x1002b_inv below (it is read entry by entry, never as a whole).
new_gf16_0x1002b ==
    LET f == new_gf16(65579, 43)
    IN  [impl |-> "F16_0x1002b", G |-> F16_0x1002b, full |-> 65579, compact |-> 43,
         reduce |-> BytewiseReduceTable_new(f)]

\* F16_0x1002b::inv: self.inv[a], the Vec that fill_inverse(&f, &mut inv, 0xffff)
\* filled in new_gf16_0x1002b
F16_0x1002b_inv(a) ==
    IF a >= 0 /\ a <= 65535
    THEN fill_inverse(new_gf16(65579, 43), <<>>, 65535)[a + 1]
    ELSE Panic

(***************************************************************************)
(* The program: the optimised fields are constructed, then the methods of  *)
(* the reference and of the optimised fields are called, one call at a     *)
(* time.  A second program constructs the log/exp tables step by step for  *)
(* a candidate generator.                                                  *)
(***************************************************************************)
VARIABLES
    f4_0x13,      \* the object new_gf4_0x13() returned
    f8_0x11b,     \* the object new_gf8_0x11b() returned
    f16_0x1002b,  \* the object new_gf16_0x1002b() returned (without inv)
    reduce,       \* BytewiseReduceTable::<F8>::new(&new_gf8(0x11b, 0x1b))
    gen,          \* the generator handed to BigLogExpTables::new
    frame,        \* the locals of a running BigLogExpTables::new
    pc,           \* "idle" between calls, "building" inside BigLogExpTables::new,
                  \* "called" when a call has ended
    call,         \* the call: its method, the field it is made on, its arguments
    out,          \* what the call returned
    ref           \* what the reference computes for the same arguments

vars == <<f4_0x13, f8_0x11b, f16_0x1002b, reduce, gen, frame, pc, call, out, ref>>

objects == <<f4_0x13, f8_0x11b, f16_0x1002b, reduce, gen, frame>>

NoCall == [op |-> "none", fld |-> "none", a |-> 0, b |-> 0]


\* The field a name stands for
Field(id) ==
    CASE id = "gf4_19"       -> new_gf4(19, 3)
      [] id = "gf4_25"       -> new_gf4(25, 9)
      [] id = "gf4_31"       -> new_gf4(31, 15)
      [] id = "gf8_11b"      -> new_gf8(283, 27)
      [] id = "gf16_1002b"   -> new_gf16(65579, 43)
      [] id = "gf4_0x13"     -> f4_0x13
      [] id = "gf8_0x11b"    -> f8_0x11b
      [] id = "gf16_0x1002b" -> f16_0x1002b

\* The reference field an optimised field is compared with in the tests
Reference(id) ==
    CASE id = "gf4_0x13"     -> new_gf4(19, 3)
      [] id = "gf8_0x11b"    -> new_gf8(283, 27)
      [] id = "gf16_0x1002b" -> new_gf16(65579, 43)
      [] OTHER               -> Field(id)

\* The elements of a field: 0 .. 2^k - 1
Elements(id) == 0..Field(id).G.FIELD_MASK

\* Bounds of the calls made
MaxLow16   == 16     \* 16-bit operands: 0 .. MaxLow16, the powers of two, ...
TopElems16 == 16     \* ... and the TopElems16 elements below 0xffff
MaxElem16  == 4095   \* 16-bit operands of inv: 0 .. MaxElem16 as well
MaxLowExp  == 16     \* exponents of every base: 0 .. MaxLowExp, ...
ExpWindow  == 1      \* ... and those within ExpWindow of a multiple of 255
MaxDivisor == 2      \* divisors of div: 0 .. MaxDivisor
MaxConvExp == 2      \* exponents next to exponent 0: 0 .. MaxConvExp

\* The largest operand and the largest exponent the conformance tests use
MaxTested16 == 1023
MaxExp8     == 1024

\* 16-bit operands
Operands16 ==
    (0..MaxLow16) \cup {2 ^ k : k \in 0..15} \cup ((65535 - TopElems16)..65535)

\* 16-bit operands of the mul conformance test
Operands10 == (Operands16 \cap (0..MaxTested16)) \cup {MaxTested16}

\* 16-bit operands of inv
InvOperands16 == Operands16 \cup (0..MaxElem16)

\* The operands a method is called with: every element of a 4-bit or an
\* 8-bit field, the operands above of a 16-bit field
Operands(id) ==
    IF Field(id).G.EBits = 16 THEN Operands16 ELSE Elements(id)

\* Exponents every base is raised to
Exponents8 ==
    (0..MaxLowExp)
    \cup {b \in 0..MaxExp8 :
            \E k \in 1..(MaxExp8 \div 255) :
               b - (k * 255) \in (0 - ExpWindow)..ExpWindow}
    \cup {MaxExp8}

\* Bases raised to every exponent 0 .. MaxExp8
Bases8 == {0, 1, 2, 3, 255}

Init ==
    /\ f4_0x13 = new_gf4_0x13
    /\ f8_0x11b = new_gf8_0x11b
    /\ f16_0x1002b = new_gf16_0x1002b
    /\ reduce = BytewiseReduceTable_new(new_gf8(283, 27))
    /\ gen = 3
    /\ frame = [new_entry EXCEPT !.at = "returned"]
    /\ pc = "idle"
    /\ call = NoCall
    /\ out = 0
    /\ ref = 0

\* A call returns to the caller, which goes on to its next call.
Return ==
    /\ pc = "called"
    /\ pc' = "idle"
    /\ call' = NoCall
    /\ out' = 0
    /\ ref' = 0
    /\ UNCHANGED objects

\* f.mul(a, b), on the fields named in ids
Mul(ids) ==
    /\ pc = "idle"
    /\ \E id \in ids : \E a \in Operands(id), b \in Operands(id) :
         /\ call' = [op |-> "mul", fld |-> id, a |-> a, b |-> b]
         /\ out' = mul(Field(id), a, b)
         /\ ref' = GaloisField_mul(Reference(id), a, b)
    /\ pc' = "called"
    /\ UNCHANGED objects

\* f.inv(a)
Inv(ids) ==
    /\ pc = "idle"
    /\ \E id \in ids : \E a \in Operands(id) :
         /\ call' = [op |-> "inv", fld |-> id, a |-> a, b |-> 0]
         /\ out' = inv(Field(id), a)
         /\ ref' = GaloisField_inv(Reference(id), a)
    /\ pc' = "called"
    /\ UNCHANGED objects

\* f.div(a, b), b among the divisors given
Div(ids, divisors) ==
    /\ pc = "idle"
    /\ \E id \in ids : \E a \in Operands(id), b \in divisors :
         /\ call' = [op |-> "div", fld |-> id, a |-> a, b |-> b]
         /\ out' = div(Field(id), a, b)
         /\ ref' = div(Reference(id), a, b)
    /\ pc' = "called"
    /\ UNCHANGED objects

\* f.pow(a, b), a among the bases and b among the exponents given
Pow(ids, bases, exponents) ==
    /\ pc = "idle"
    /\ \E id \in ids : \E a \in bases \cap Operands(id), b \in exponents :
         /\ call' = [op |-> "pow", fld |-> id, a |-> a, b |-> b]
         /\ out' = pow(Field(id), a, b)
         /\ ref' = GaloisField_pow(Reference(id), a, b)
    /\ pc' = "called"
    /\ UNCHANGED objects

\* f.mod_reduce(f.mull(a, b)), next to f.mul(a, b)
LongMulReduce(ids) ==
    /\ pc = "idle"
    /\ \E id \in ids : \E a \in Operands(id), b \in Operands(id) :
         /\ call' = [op |-> "mull", fld |-> id, a |-> a, b |-> b]
         /\ out' = mod_reduce(Field(id), mull(Field(id), a, b))
         /\ ref' = GaloisField_mul(Reference(id), a, b)
    /\ pc' = "called"
    /\ UNCHANGED objects

\* reduce.mod_reduce_bytewise(x), next to the reference mod_reduce(x), for
\* every x of type EE
ModReduceBytewise ==
    /\ pc = "idle"
    /\ \E x \in 0..((2 ^ reduce.G.EEBits) - 1) :
         /\ call' = [op |-> "mod_reduce_bytewise", fld |-> "gf8_11b",
                     a |-> x, b |-> 0]
         /\ out' = mod_reduce_bytewise(reduce, x)
         /\ ref' = mod_reduce(new_gf8(283, 27), x)
    /\ pc' = "called"
    /\ UNCHANGED objects

\* f16_0x1002b.mul(a, b).  The two raw reads of the reduce table yield any
\* value when they fall outside the table.
Mul16 ==
    /\ pc = "idle"
    /\ \E a \in Operands10, b \in Operands10 :
       \E g1 \in GarbageValues(16), g2 \in GarbageValues(16) :
         /\ call' = [op |-> "mul", fld |-> "gf16_0x1002b", a |-> a, b |-> b]
         /\ out' = F16_0x1002b_mul(f16_0x1002b.reduce, a, b, g1, g2)
         /\ ref' = GaloisField_mul(Reference("gf16_0x1002b"), a, b)
    /\ pc' = "called"
    /\ UNCHANGED objects

\* f16_0x1002b.inv(a)
Inv16 ==
    /\ pc = "idle"
    /\ \E a \in InvOperands16 :
         /\ call' = [op |-> "inv", fld |-> "gf16_0x1002b", a |-> a, b |-> 0]
         /\ out' = F16_0x1002b_inv(a)
         /\ ref' = GaloisField_inv(Reference("gf16_0x1002b"), a)
    /\ pc' = "called"
    /\ UNCHANGED objects

\* BigLogExpTables::new(&new_gf8(0x11b, 0x1b), g) is entered
NewEnter ==
    /\ pc = "idle"
    /\ \E g \in Elements("gf8_11b") :
         /\ gen' = g
         /\ call' = [op |-> "new", fld |-> "gf8_11b", a |-> g, b |-> 0]
    /\ frame' = new_entry
    /\ pc' = "building"
    /\ UNCHANGED <<f4_0x13, f8_0x11b, f16_0x1002b, reduce, out, ref>>

\* the call advances by one block or one loop iteration
NewStep ==
    /\ pc = "building"
    /\ frame.at \notin {"done", "panic"}
    /\ frame' = new_step(new_gf8(283, 27), gen, frame)
    /\ UNCHANGED <<f4_0x13, f8_0x11b, f16_0x1002b, reduce, gen, pc, call, out, ref>>

\* the call ends: it returns the tables or it panics
NewExit ==
    /\ pc = "building"
    /\ frame.at \in {"done", "panic"}
    /\ out' = IF frame.at = "done" THEN 0 ELSE Panic
    /\ pc' = "called"
    /\ UNCHANGED <<objects, call, ref>>

(***************************************************************************)
(* Specifications: one per group of calls that are checked together.       *)
(***************************************************************************)
\* The full-table 4-bit field
Next ==
    \/ Mul({"gf4_0x13"})
    \/ Inv({"gf4_0x13"})
    \/ Return

Spec == Init /\ [][Next]_vars

\* The log/exp-table 8-bit field: mul and inv
NextF8 ==
    \/ Mul({"gf8_0x11b"})
    \/ Inv({"gf8_0x11b"})
    \/ Return

SpecF8 == Init /\ [][NextF8]_vars

\* The log/exp-table 8-bit field: pow
NextPow8 ==
    \/ Pow({"gf8_0x11b"}, Elements("gf8_0x11b"), Exponents8)
    \/ Pow({"gf8_0x11b"}, Bases8, 0..MaxExp8)
    \/ Return

SpecPow8 == Init /\ [][NextPow8]_vars

\* The 16-bit field: mul
NextF16 ==
    \/ Mul16
    \/ Return

SpecF16 == Init /\ [][NextF16]_vars

\* The inverse vectors of fill_inverse
NextInv ==
    \/ Inv({"gf4_0x13"})
    \/ Inv16
    \/ Return

SpecInv == Init /\ [][NextInv]_vars

\* Long multiplication and reduction in the reference fields
NextLong ==
    \/ LongMulReduce({"gf4_19", "gf4_25", "gf4_31", "gf16_1002b"})
    \/ Return

SpecLong == Init /\ [][NextLong]_vars

\* The bytewise reduce table of the 8-bit field
NextReduce8 ==
    \/ ModReduceBytewise
    \/ Return

SpecReduce8 == Init /\ [][NextReduce8]_vars

\* Construction of the log/exp tables from a candidate generator
NextBuild ==
    \/ NewEnter
    \/ NewStep
    \/ NewExit
    \/ Return

SpecBuild == Init /\ [][NextBuild]_vars

\* The conventions for zero, in the reference fields and the table field
ConvFields == {"gf4_19", "gf8_11b", "gf16_1002b", "gf8_0x11b"}

NextConv ==
    \/ Inv(ConvFields)
    \/ Div(ConvFields, 0..MaxDivisor)
    \/ Pow(ConvFields, 0..65535, 0..MaxConvExp)
    \/ Return

SpecConv == Init /\ [][NextConv]_vars

\* The generators the test generator_should_loop lists for the 4-bit
\* fields, and the generator 3 of the 8-bit field
KnownGenerators(id) ==
    CASE id = "gf4_19"  -> {2, 3, 4, 5, 9, 11, 13, 14}
      [] id = "gf4_25"  -> {2, 4, 6, 7, 9, 12, 13, 14}
      [] id = "gf4_31"  -> {3, 5, 6, 7, 9, 10, 11, 14}
      [] id = "gf8_11b" -> {3}
      [] OTHER          -> {}

\* The exponents around the size 2^k of a k-bit field
WrapExponents(k) == {(2 ^ k) - 1, 2 ^ k, (2 ^ k) + 1}

\* pow with exponents at and beyond the group order, in the reference fields
NextWrap ==
    \/ Pow({"gf4_19", "gf4_25", "gf4_31"}, 0..15, WrapExponents(4))
    \/ Pow({"gf8_11b"}, 0..255, WrapExponents(8))
    \/ Pow({"gf16_1002b"}, 0..65535, WrapExponents(16))
    \/ Return

SpecWrap == Init /\ [][NextWrap]_vars

\* f.pow(a, n) next to f.mul(f.pow(a, n - 1), a), as the tests
\* mod_power_16_directly and test_pow_257 compare them
PowStep(ids, bases, exponents) ==
    /\ pc = "idle"
    /\ \E id \in ids : \E a \in bases \cap Operands(id), n \in exponents :
         /\ call' = [op |-> "pow_step", fld |-> id, a |-> a, b |-> n]
         /\ out' = pow(Field(id), a, n)
         /\ ref' = mul(Field(id), pow(Field(id), a, n - 1), a)
    /\ pc' = "called"
    /\ UNCHANGED objects

\* Successive powers: every element of the 4-bit fields with every exponent
\* up to 2^4 + 1; in the 8-bit field every element with the low exponents
\* and those around the group order, and the bases Bases8 and 12 with every
\* exponent up to 2^8 + 1
NextStep ==
    \/ PowStep({"gf4_19", "gf4_25", "gf4_31"}, 0..15, 1..17)
    \/ PowStep({"gf8_11b"}, 0..255, (1..MaxLowExp) \cup (254..257))
    \/ PowStep({"gf8_11b"}, Bases8 \cup {12}, 1..257)
    \/ Return

SpecStep == Init /\ [][NextStep]_vars

\* f.inv(f.inv(a)), as test_gf8_inverses calls it; ref is the inner result.
\* A panic or a hang of the inner call is the outcome of the whole.
InvInv(ids) ==
    /\ pc = "idle"
    /\ \E id \in ids : \E a \in Operands(id) :
         LET ia == inv(Field(id), a)
         IN  /\ call' = [op |-> "inv_inv", fld |-> id, a |-> a, b |-> 0]
             /\ ref' = ia
             /\ out' = IF ia < 0 THEN ia ELSE inv(Field(id), ia)
    /\ pc' = "called"
    /\ UNCHANGED objects

\* The inverse of the inverse, in the reference fields
NextInvInv ==
    \/ InvInv({"gf4_19", "gf4_25", "gf4_31", "gf8_11b", "gf16_1002b"})
    \/ Return

SpecInvInv == Init /\ [][NextInvInv]_vars

\* The three ways to the inverse of a non-zero a that the tests compare
\* with f.inv(a), kept in ref: f.mul(a, f.inv(a)), f.div(1, a) and
\* f.pow(a, 2^k - 2)
InvLaw(ids) ==
    /\ pc = "idle"
    /\ \E id \in ids : \E a \in Operands(id) \ {0} :
       \E law \in {"mul_inv", "div_one", "pow_inv"} :
       \E ia \in {inv(Field(id), a)}, n \in {Field(id).G.FIELD_MASK - 1} :
         /\ call' = [op |-> law, fld |-> id, a |-> a, b |-> 0]
         /\ ref' = ia
         /\ out' = CASE law = "mul_inv" ->
                          IF ia < 0 THEN ia ELSE mul(Field(id), a, ia)
                     [] law = "div_one" -> div(Field(id), 1, a)
                     [] law = "pow_inv" -> pow(Field(id), a, n)
    /\ pc' = "called"
    /\ UNCHANGED objects

\* The inverse laws, in the reference fields
NextInvLaw ==
    \/ InvLaw({"gf4_19", "gf4_25", "gf4_31", "gf8_11b", "gf16_1002b"})
    \/ Return

SpecInvLaw == Init /\ [][NextInvLaw]_vars

\* The schoolbook multiplication of the module's example, for a two-byte a
\* and a one-byte b: the fragments rmull(a_i, b_j) shifted into place and
\* XOR-ed into a result of twice the width
schoolbook(a, b) ==
    LET a1 == Shr(a, 8)
        a0 == a % 256
        b1 == Shr(b, 4)
        b0 == And(b, 15)
        r0 == Shl(rmull(a0, b0), 0, 32)
        r1 == Xor(r0, Shl(rmull(a1, b0), 8, 32))
        r2 == Xor(r1, Shl(rmull(a0, b1), 4, 32))
    IN  Xor(r2, Shl(rmull(a1, b1), 12, 32))

\* The two-byte operands multiplied the schoolbook way: those of Operands16
\* and the halves of the example's 0x12345678
SchoolOperands == Operands16 \cup {4660, 22136}

\* rmull(big, small), next to the reference mull of the same operands
Rmull ==
    /\ pc = "idle"
    /\ \E big \in 0..255, small \in 0..15 :
         /\ call' = [op |-> "rmull", fld |-> "gf8_11b", a |-> big, b |-> small]
         /\ out' = rmull(big, small)
         /\ ref' = mull(Field("gf8_11b"), big, small)
    /\ pc' = "called"
    /\ UNCHANGED objects

\* A whole product from rmull fragments, next to the reference mull
Schoolbook ==
    /\ pc = "idle"
    /\ \E a \in SchoolOperands, b \in 0..255 :
         /\ call' = [op |-> "schoolbook", fld |-> "gf16_1002b", a |-> a, b |-> b]
         /\ out' = schoolbook(a, b)
         /\ ref' = mull(Field("gf16_1002b"), a, b)
    /\ pc' = "called"
    /\ UNCHANGED objects

NextMull ==
    \/ Rmull
    \/ Schoolbook
    \/ Return

SpecMull == Init /\ [][NextMull]_vars

\* f.order(), f.high_bit() and f.field_mask(), and the constant POLY_BIT of
\* the class of f
Accessor(ids) ==
    /\ pc = "idle"
    /\ \E id \in ids : \E c \in {"ORDER", "HIGH_BIT", "FIELD_MASK", "POLY_BIT"} :
         /\ call' = [op |-> c, fld |-> id, a |-> 0, b |-> 0]
         /\ out' = Field(id).G[c]
         /\ ref' = Reference(id).G[c]
    /\ pc' = "called"
    /\ UNCHANGED objects

\* f.add(a, b)
Add(ids) ==
    /\ pc = "idle"
    /\ \E id \in ids : \E a \in Operands(id), b \in Operands(id) :
         /\ call' = [op |-> "add", fld |-> id, a |-> a, b |-> b]
         /\ out' = add(Field(id), a, b)
         /\ ref' = add(Reference(id), a, b)
    /\ pc' = "called"
    /\ UNCHANGED objects

\* f.mod_reduce(a), a of the type EE among the values given
ModReduce(ids, values) ==
    /\ pc = "idle"
    /\ \E id \in ids : \E a \in values :
         /\ call' = [op |-> "mod_reduce", fld |-> id, a |-> a, b |-> 0]
         /\ out' = mod_reduce(Field(id), a)
         /\ ref' = mod_reduce(Reference(id), a)
    /\ pc' = "called"
    /\ UNCHANGED objects

\* Every field the model builds
AllFields ==
    {"gf4_19", "gf4_25", "gf4_31", "gf8_11b", "gf16_1002b",
     "gf4_0x13", "gf8_0x11b", "gf16_0x1002b"}

\* The 4-bit fields, whose storage type u8 is wider than the field
Fields4 == {"gf4_19", "gf4_25", "gf4_31", "gf4_0x13"}

\* The constants of every class, and every default operation: on all
\* operands of the 4-bit fields (every u8 value as exponent and as value to
\* reduce), and on the operands Operands16 of the 16-bit reference field;
\* in the 8-bit reference field, whose elements fill their type, inv of
\* every element, div and pow with every dividend and base
NextRange ==
    \/ Accessor(AllFields)
    \/ Add(Fields4 \cup {"gf16_1002b"})
    \/ Mul(Fields4 \cup {"gf16_1002b"})
    \/ Inv(Fields4 \cup {"gf8_11b", "gf16_1002b"})
    \/ Div(Fields4, 0..15)
    \/ Div({"gf8_11b", "gf16_1002b"}, Bases8)
    \/ Pow(Fields4, 0..15, 0..255)
    \/ Pow({"gf8_11b", "gf16_1002b"}, 0..65535, 0..MaxLowExp)
    \/ ModReduce(Fields4, 0..255)
    \/ ModReduce({"gf8_11b", "gf16_1002b"}, Operands16)
    \/ Return

SpecRange == Init /\ [][NextRange]_vars

\* The reference fields
RefFields == {"gf4_19", "gf4_25", "gf4_31", "gf8_11b", "gf16_1002b"}

\* Sums and products of every pair of elements of the 4-bit and 8-bit
\* reference fields, and of the operands Operands16 of the 16-bit one
NextRing ==
    \/ Add(RefFields)
    \/ Mul(RefFields)
    \/ Return

SpecRing == Init /\ [][NextRing]_vars

\* f.mul(f.add(a1, a2), b), next to f.add(f.mul(a1, b), f.mul(a2, b)), as
\* the tests distributive_1 and distributive_2 compare them
Distribute(ids, addends) ==
    /\ pc = "idle"
    /\ \E id \in ids :
       \E a1 \in addends \cap Operands(id), a2 \in addends \cap Operands(id),
          b \in Operands(id) :
         /\ call' = [op |-> "distribute", fld |-> id, a |-> a1, b |-> b, a2 |-> a2]
         /\ out' = mul(Field(id), add(Field(id), a1, a2), b)
         /\ ref' = add(Field(id), mul(Field(id), a1, b), mul(Field(id), a2, b))
    /\ pc' = "called"
    /\ UNCHANGED objects

\* Every triple of elements of the 4-bit reference fields; in the 8-bit and
\* 16-bit reference fields the addends Bases8, 0x53 and 0xCA with every
\* element or operand b
NextDistrib ==
    \/ Distribute({"gf4_19", "gf4_25", "gf4_31"}, 0..15)
    \/ Distribute({"gf8_11b", "gf16_1002b"}, Bases8 \cup {83, 202})
    \/ Return

SpecDistrib == Init /\ [][NextDistrib]_vars

\* 16-bit exponents: the low ones, the powers of two, those around the
\* multiples of 255 up to MaxExp8 and the highest
Exponents16 == Operands16 \cup Exponents8

\* The three table methods of the 8-bit field, on every element, pow with
\* the exponents above
NextLookup ==
    \/ Mul({"gf8_0x11b"})
    \/ Inv({"gf8_0x11b"})
    \/ Pow({"gf8_0x11b"}, Elements("gf8_0x11b"), Exponents16)
    \/ Return

SpecLookup == Init /\ [][NextLookup]_vars

\* The reduce table of a field: the one built for the 8-bit reference
\* field, and the one inside the object new_gf16_0x1002b() returned
ReduceTable(id) ==
    IF id = "gf8_11b" THEN reduce ELSE f16_0x1002b.reduce

\* reduce[i] of a BytewiseReduceTable, next to the reference reduction of
\* i << k, k the width of the field
ReduceEntry ==
    /\ pc = "idle"
    /\ \E id \in {"gf8_11b", "gf16_0x1002b"} : \E i \in 0..255 :
         /\ call' = [op |-> "reduce_entry", fld |-> id, a |-> i, b |-> 0]
         /\ out' = index(ReduceTable(id).reduce, i)
         /\ ref' = mod_reduce(Reference(id),
                              Shl(i, Field(id).G.ORDER, Field(id).G.EEBits))
    /\ pc' = "called"
    /\ UNCHANGED objects

\* reduce.mod_shift_left_8(hi) ^ lo on the table of the 8-bit field, next
\* to the reference mod_reduce of the two bytes, as test_mod_shift_left_8
\* compares them
ModShiftLeft8 ==
    /\ pc = "idle"
    /\ \E hi \in 0..255, lo \in 0..255 : \E g \in GarbageValues(8) :
         /\ call' = [op |-> "mod_shift_left_8", fld |-> "gf8_11b",
                     a |-> hi, b |-> lo]
         /\ out' = Xor(mod_shift_left_8(reduce, hi, g), lo)
         /\ ref' = mod_reduce(new_gf8(283, 27), Xor(Shl(hi, 8, 16), lo))
    /\ pc' = "called"
    /\ UNCHANGED objects

\* f16_0x1002b.reduce.mod_shift_left_8(a), as F16_0x1002b::mul calls it on
\* its 16-bit intermediate values, next to the reference mul(a, 0x100).
\* The raw read yields any value when it falls outside the table.
ModShiftLeft8_16 ==
    /\ pc = "idle"
    /\ \E a \in Operands16 : \E g \in GarbageValues(16) :
         /\ call' = [op |-> "mod_shift_left_8", fld |-> "gf16_0x1002b",
                     a |-> a, b |-> 0]
         /\ out' = mod_shift_left_8(f16_0x1002b.reduce, a, g)
         /\ ref' = GaloisField_mul(Reference("gf16_0x1002b"), a, 256)
    /\ pc' = "called"
    /\ UNCHANGED objects

\* The bytewise reduce tables and the modular shift by a byte
NextShift ==
    \/ ReduceEntry
    \/ ModShiftLeft8_16
    \/ ModShiftLeft8
    \/ Return

SpecShift == Init /\ [][NextShift]_vars

\* The reference fields with an irreducible polynomial whose operations
\* are run on their whole domain
TermFields == {"gf4_19", "gf4_25", "gf4_31", "gf8_11b"}

\* Every reference operation: mul, mull and mod_reduce of every pair, inv of
\* every element, mod_reduce of every double-width value, pow with every
\* u8 exponent in the 4-bit fields and with 16-bit exponents in the 8-bit
\* field
NextTerm ==
    \/ Inv(TermFields)
    \/ LongMulReduce(TermFields)
    \/ ModReduce({"gf4_19", "gf4_25", "gf4_31"}, 0..255)
    \/ ModReduce({"gf8_11b"}, 0..65535)
    \/ Pow({"gf4_19", "gf4_25", "gf4_31"}, 0..15, 0..255)
    \/ Pow({"gf8_11b"}, Bases8, Exponents16)
    \/ Pow({"gf8_11b"}, 0..255, 0..MaxConvExp)
    \/ Return

SpecTerm == Init /\ [][NextTerm]_vars

\* f.mul(f.mul(a, b), c), next to f.mul(a, f.mul(b, c))
Associate(ids, firsts) ==
    /\ pc = "idle"
    /\ \E id \in ids :
       \E a \in firsts \cap Operands(id), b \in firsts \cap Operands(id),
          c \in Operands(id) :
         /\ call' = [op |-> "associate", fld |-> id, a |-> a, b |-> b, c |-> c]
         /\ out' = mul(Field(id), mul(Field(id), a, b), c)
         /\ ref' = mul(Field(id), a, mul(Field(id), b, c))
    /\ pc' = "called"
    /\ UNCHANGED objects

\* Every triple of elements of the 4-bit reference fields; in the 8-bit and
\* 16-bit reference fields a and b among Bases8, 0x53 and 0xCA, with every
\* element or operand c
NextAssoc ==
    \/ Associate({"gf4_19", "gf4_25", "gf4_31"}, 0..15)
    \/ Associate({"gf8_11b", "gf16_1002b"}, Bases8 \cup {83, 202})
    \/ Return

SpecAssoc == Init /\ [][NextAssoc]_vars

\* Multiples of 2^k - 1 among the exponents of a width of w bits, and the
\* exponents on both sides of them
NearMultiples(k, w) ==
    {b \in 0..((2 ^ w) - 1) :
       \E d \in {0 - 1, 0, 1} : (b + d) % ((2 ^ k) - 1) = 0}

\* f.pow(a, b), next to f.pow(a, b mod (2^k - 1))
PowResidue(ids, bases, exponents) ==
    /\ pc = "idle"
    /\ \E id \in ids : \E a \in bases \cap Operands(id), b \in exponents :
         /\ call' = [op |-> "pow_residue", fld |-> id, a |-> a, b |-> b]
         /\ out' = GaloisField_pow(Reference(id), a, b)
         /\ ref' = GaloisField_pow(Reference(id), a,
                                   b % Reference(id).G.FIELD_MASK)
    /\ pc' = "called"
    /\ UNCHANGED objects

\* Every element and every u8 exponent in the 4-bit reference fields; in
\* GF(2^8) every element with the u16 exponents next to 0, 255, 510 and the
\* last multiples of 255, and the bases of Bases8, 0x53 and 0xCA with the
\* exponents of Exponents16 and all those next to a multiple of 255; in the
\* 16-bit reference field the exponents next to the first multiples of 65535
NextResidue ==
    \/ PowResidue({"gf4_19", "gf4_25", "gf4_31"}, 0..15, 0..255)
    \/ PowResidue({"gf8_11b"}, 0..255,
                  {b \in NearMultiples(8, 16) : b <= 511 \/ b >= 65279})
    \/ PowResidue({"gf8_11b"}, Bases8 \cup {83, 202},
                  Exponents16 \cup NearMultiples(8, 16))
    \/ PowResidue({"gf16_1002b"}, Bases8 \cup {65535},
                  {b \in NearMultiples(16, 18) : b > 0})
    \/ Return

SpecResidue == Init /\ [][NextResidue]_vars

(***************************************************************************)
(* Properties.  In a state with pc = "called", call is the call that was   *)
(* made, out what it returned and ref what the reference field returns.    *)
(***************************************************************************)
Called(op, fld) == pc = "called" /\ call.op = op /\ call.fld = fld

\* C1: for every pair (a, b) of 8-bit elements, mul(a, b) of the log/exp
\* table field new_gf8_0x11b() equals the reference bit-serial mul(a, b) of
\* new_gf8(0x11b, 0x1b).  (SpecF8 makes all 65536 calls.)
C1_TableMulConforms ==
    Called("mul", "gf8_0x11b") =>
        /\ out = ref
        /\ out = GaloisField_mul(new_gf8(283, 27), call.a, call.b)
        /\ out \in 0..255

\* {57} . {83} = {c1} in GF(2^8) modulo 0x11b
C1_Witness ==
    /\ Called("mul", "gf8_0x11b")
    /\ call.a = 87 /\ call.b = 131
    /\ out = 193 /\ ref = 193

\* C2, as stated: for every a and b in 0 .. 1023, mul(a, b) of
\* new_gf16_0x1002b() equals the reference mul(a, b) of
\* new_gf16(0x1002b, 0x2b).
C2_Mul16Conforms ==
    Called("mul", "gf16_0x1002b") => out = ref

\* the read of the reduce table falls outside its 256 entries
C2_OutOfTable ==
    /\ Called("mul", "gf16_0x1002b")
    /\ call.a = 128 /\ call.b = 512
    /\ ref = 43 /\ out # ref

\* C3: for every pair (a, b) of 4-bit elements, mul(a, b) of the full-table
\* field new_gf4_0x13() is the table entry at index (a << 4) + b and equals
\* the reference mul(a, b) of new_gf4(19, 3).
C3_FullTableMulConforms ==
    Called("mul", "gf4_0x13") =>
        /\ out = ref
        /\ out = f4_0x13.mul_lut.table[(call.a * 16) + call.b + 1]
        /\ Len(f4_0x13.mul_lut.table) = 256

C3_Witness ==
    /\ Called("mul", "gf4_0x13")
    /\ call.a = 7 /\ call.b = 11
    /\ out = 4 /\ ref = 4

\* C4: for every 8-bit element a, 0 and 1 among them, inv(a) of
\* new_gf8_0x11b() is the exp entry at offset 255 - log[a] from the bias and
\* equals the reference extended-Euclid inv(a) of new_gf8(0x11b, 0x1b).
C4_TableInvConforms ==
    Called("inv", "gf8_0x11b") =>
        /\ out = ref
        /\ out = f8_0x11b.tables.exp[
                     f8_0x11b.tables.exp_entry + 255
                         - f8_0x11b.tables.log[call.a + 1] + 1]
        /\ (call.a \in {0, 1} => out = call.a)

\* the inverse of {53} is {ca}
C4_Witness ==
    /\ Called("inv", "gf8_0x11b")
    /\ call.a = 83
    /\ out = 202 /\ ref = 202

\* C5: the inverse vector built by fill_inverse holds at every index a the
\* reference inv(a), and 0 at index 0: inv(a) of new_gf4_0x13() equals
\* inv(a) of new_gf4(19, 3) for all 16 elements, and inv(a) of
\* new_gf16_0x1002b() equals inv(a) of new_gf16(0x1002b, 0x2b) for the
\* elements of InvOperands16.
C5_InverseVectorConforms ==
    (pc = "called" /\ call.op = "inv"
        /\ call.fld \in {"gf4_0x13", "gf16_0x1002b"}) =>
        /\ out = ref
        /\ (call.a = 0 => out = 0)
        /\ (call.fld = "gf4_0x13" =>
               /\ out = f4_0x13.inv_lut[call.a + 1]
               /\ Len(f4_0x13.inv_lut) = 16)

C5_Witness ==
    /\ Called("inv", "gf16_0x1002b")
    /\ call.a = 2
    /\ out = 32789 /\ ref = 32789

\* C6: for every 8-bit element a and the exponents b called (Exponents8 for
\* every a, 0 .. 1024 for the bases of Bases8), the table-driven pow(a, b)
\* of new_gf8_0x11b() equals the reference square-and-multiply pow(a, b) of
\* new_gf8(0x11b, 0x1b); a = 0 and exponents beyond 255 are among them.
C6_TablePowConforms ==
    Called("pow", "gf8_0x11b") =>
        /\ out = ref
        /\ out \in 0..255

\* an exponent beyond the group order, on a base other than 0 and 1
C6_Witness ==
    /\ Called("pow", "gf8_0x11b")
    /\ call.a = 2 /\ call.b = 1024
    /\ out = 16 /\ ref = 16

\* C7, as stated: for all elements a and b of a reference field,
\* mul(a, b) equals mod_reduce(mull(a, b)).
C7_LongMulReduceConforms ==
    (pc = "called" /\ call.op = "mull") => out = ref

\* in the 16-bit reference field the reduction of x^12 * x^12 never returns
C7_ReduceHangs ==
    /\ Called("mull", "gf16_1002b")
    /\ call.a = 4096 /\ call.b = 4096
    /\ out = Hang /\ ref = 11008

\* C8: for every 16-bit value x, mod_reduce_bytewise(x) on the
\* BytewiseReduceTable of the 8-bit field 0x11b equals the reference
\* bitwise mod_reduce of x against 0x11b.
C8_BytewiseReduceConforms ==
    Called("mod_reduce_bytewise", "gf8_11b") =>
        /\ out = ref
        /\ out \in 0..255

C8_Witness ==
    /\ Called("mod_reduce_bytewise", "gf8_11b")
    /\ call.a = 48879
    /\ out = 164 /\ ref = 164

\* <<p, p g, ..., p g^(n-1)>>, by repeated reference multiplication
RECURSIVE PowersOf(_, _, _, _)
PowersOf(f, g, p, n) ==
    IF n = 1 THEN <<p>>
    ELSE LET h == n \div 2
             A == PowersOf(f, g, p, h)
         IN  A \o PowersOf(f, g, GaloisField_mul(f, A[h], g), n - h)

\* g is a generator: its powers are all the non-zero elements
IsGenerator(f, g) ==
    LET powers == PowersOf(f, g, g, f.G.FIELD_MASK)
    IN  {powers[k] : k \in 1..f.G.FIELD_MASK} = 1..f.G.FIELD_MASK

\* C9: for the 8-bit field 0x11b and every g in 0 .. 255,
\* BigLogExpTables::new(f, g) panics when the powers of g do not enumerate
\* the 255 non-zero elements (g = 0 and g = 1 among them) and returns
\* tables only when g is a generator.
C9_NewAllOrNothing ==
    Called("new", "gf8_11b") =>
        /\ frame.at \in {"done", "panic"}
        /\ call.a = gen
        /\ (frame.at = "done") = IsGenerator(new_gf8(283, 27), gen)
        /\ (frame.at = "panic") = (out = Panic)
        /\ (gen \in {0, 1} => frame.at = "panic")

\* 2 has order 51 in GF(2^8) modulo 0x11b: the call panics
C9_Witness ==
    /\ Called("new", "gf8_11b")
    /\ gen = 2
    /\ frame.at = "panic" /\ out = Panic
    /\ frame.p = 1 /\ frame.i = 52

\* C10: inv(0) is 0, div(a, 0) is 0 for every a and pow(a, 0) is 1 for
\* every a, 0 among them, in the reference fields and in the table-driven
\* 8-bit field; none of the three panics.
C10_ZeroConventions ==
    (pc = "called" /\ call.fld \in ConvFields) =>
        /\ (call.op = "inv" /\ call.a = 0 => out = 0)
        /\ (call.op = "div" /\ call.b = 0 => out = 0)
        /\ (call.op = "pow" /\ call.b = 0 => out = 1)

\* a division by zero in the table-driven field
C10_Witness ==
    /\ Called("div", "gf8_0x11b")
    /\ call.a = 7 /\ call.b = 0
    /\ out = 0

\* C11: exponents at and beyond the group order wrap around.  In a k-bit
\* reference field pow(a, 2^k) is a and pow(a, 2^k + 1) is mul(a, a) for
\* every element a, and pow(g, 2^k - 1) is 1 and pow(g, 2^k) is g for every
\* generator g: the listed generators of GF(2^4) with 19, 25 and 31 and
\* g = 3 of GF(2^8) with 0x11b, and every other generator of these fields.
C11_PowWraps ==
    (pc = "called" /\ call.op = "pow"
        /\ call.fld \in {"gf4_19", "gf4_25", "gf4_31", "gf8_11b", "gf16_1002b"}) =>
        LET f    == Field(call.fld)
            size == f.G.FIELD_MASK + 1
            g    == call.a
        IN  /\ (call.b = size => out = call.a)
            /\ (call.b = size + 1 => out = GaloisField_mul(f, call.a, call.a))
            /\ (g \in KnownGenerators(call.fld) => IsGenerator(f, g))
            /\ ((call.b \in {size - 1, size}
                   /\ (g \in KnownGenerators(call.fld)
                         \/ (f.G.EBits = 8 /\ IsGenerator(f, g)))) =>
                  out = IF call.b = size THEN g ELSE 1)

\* 3^256 = 3 in GF(2^8) modulo 0x11b
C11_Witness ==
    /\ Called("pow", "gf8_11b")
    /\ call.a = 3 /\ call.b = 256
    /\ out = 3

\* C12 as stated: pow(a, n) is mul(pow(a, n - 1), a) for every element a
\* and every n in [1, 2^k + 1].
C12_PowStepAll ==
    (pc = "called" /\ call.op = "pow_step") => out = ref

\* C12, amended: pow(a, n) is mul(pow(a, n - 1), a) for every non-zero
\* element a and every n in [1, 2^k + 1], and for a = 0 at every such n but
\* n = 2^k - 1, where the reduced exponent is 0 and pow(0, n) is 1.  So
\* pow(a, 3) is mul(a, mul(a, a)) for every a.
C12_PowStep ==
    (pc = "called" /\ call.op = "pow_step") =>
        LET f == Field(call.fld)
        IN  /\ (call.a # 0 \/ call.b # f.G.FIELD_MASK) => out = ref
            /\ (call.a = 0 /\ call.b = f.G.FIELD_MASK) => (out = 1 /\ ref = 0)
            /\ call.b = 3 =>
                 out = GaloisField_mul(f, call.a, GaloisField_mul(f, call.a, call.a))

\* 12^257 = 12^256 * 12 in GF(2^8) modulo 0x11b, both 12^2 = 80
C12_Witness ==
    /\ Called("pow_step", "gf8_11b")
    /\ call.a = 12 /\ call.b = 257
    /\ out = ref /\ out = 80

\* C13: the inverse is an involution.  inv(inv(a)) is a for every a in
\* [0, 255] of the reference 8-bit field modulo 0x11b, 0 and 1 included
\* (and for the elements tried of the other reference fields).
C13_InvInvolution ==
    (pc = "called" /\ call.op = "inv_inv") => out = call.a

\* inv(0x53) = 0xCA and inv(0xCA) = 0x53 in GF(2^8) modulo 0x11b
C13_Witness ==
    /\ Called("inv_inv", "gf8_11b")
    /\ call.a = 83 /\ ref = 202
    /\ out = 83

\* C14: for every non-zero element a of a reference field with an
\* irreducible polynomial (GF(2^4) with 19, 25 and 31, where inv applies
\* its fixup of 4, and GF(2^8) with 0x11b), inv(a) is a non-zero element
\* with mul(a, inv(a)) = 1, div(1, a) = inv(a) and pow(a, 2^k - 2) = inv(a).
C14_InverseLaws ==
    (pc = "called" /\ call.op \in {"mul_inv", "div_one", "pow_inv"}) =>
        /\ ref \in 1..Field(call.fld).G.FIELD_MASK
        /\ call.op = "mul_inv" => out = 1
        /\ call.op \in {"div_one", "pow_inv"} => out = ref

\* 3^254 = inv(3) = 0xF6 in GF(2^8) modulo 0x11b
C14_Witness ==
    /\ Called("pow_inv", "gf8_11b")
    /\ call.a = 3
    /\ ref = 246 /\ out = 246

C16_ConstantsMatchWidth ==
    (pc = "called" /\ call.op \in {"ORDER", "HIGH_BIT", "FIELD_MASK", "POLY_BIT"}) =>
        LET k == IF call.fld \in Fields4 THEN 4
                 ELSE IF call.fld \in {"gf8_11b", "gf8_0x11b"} THEN 8
                 ELSE 16
        IN  out = CASE call.op = "ORDER"      -> k
                    [] call.op = "HIGH_BIT"   -> 2 ^ (k - 1)
                    [] call.op = "FIELD_MASK" -> (2 ^ k) - 1
                    [] call.op = "POLY_BIT"   -> 2 ^ k

\* order() of the 16-bit reference class F16 answers 8
C16_Order8 ==
    /\ Called("ORDER", "gf16_1002b")
    /\ out = 8

\* C17: field elements stay confined to the field mask.  For every field,
\* in particular GF(2^4) whose storage u8 is wider than the field, and all
\* operands in [0, 2^k), the results of add, mul, inv, div, pow and
\* mod_reduce lie in [0, 2^k); so does mod_reduce of every u8 value in the
\* 4-bit fields.
C17_ResultsInField ==
    (pc = "called"
        /\ call.op \in {"add", "mul", "inv", "div", "pow", "mod_reduce"}) =>
        out \in 0..Field(call.fld).G.FIELD_MASK

\* 9 * 9 in GF(2^4) modulo 19: the shifted operand passes bit 4 and is
\* masked back, the product is 13
C17_Witness ==
    /\ Called("mul", "gf4_19")
    /\ call.a = 9 /\ call.b = 9
    /\ out = 13

\* C18: 1 is a two-sided multiplicative identity, 0 is absorbing and the
\* additive identity.  For every element a: mul(a, 1) = a, mul(1, a) = a,
\* mul(a, 0) = 0, mul(0, a) = 0 and add(a, 0) = a.
C18_Identities ==
    /\ (pc = "called" /\ call.op = "mul" /\ call.fld \in RefFields) =>
          /\ call.b = 1 => out = call.a
          /\ call.a = 1 => out = call.b
          /\ call.b = 0 => out = 0
          /\ call.a = 0 => out = 0
    /\ (pc = "called" /\ call.op = "add" /\ call.fld \in RefFields) =>
          /\ call.b = 0 => out = call.a
          /\ call.a = 0 => out = call.b

\* 13 * 1 = 13 in GF(2^4) modulo 19
C18_Witness ==
    /\ Called("mul", "gf4_19")
    /\ call.a = 13 /\ call.b = 1
    /\ out = 13

\* C19: the reference multiplication is commutative although its loop
\* treats the operands differently: mul(a, b) = mul(b, a) for all elements
\* a and b.
C19_MulCommutes ==
    (pc = "called" /\ call.op = "mul" /\ call.fld \in RefFields) =>
        out = GaloisField_mul(Field(call.fld), call.b, call.a)

\* 7 * 12 = 12 * 7 = 2 in GF(2^4) modulo 19
C19_Witness ==
    /\ Called("mul", "gf4_19")
    /\ call.a = 7 /\ call.b = 12
    /\ out = 2
    /\ GaloisField_mul(Field("gf4_19"), 12, 7) = 2

\* C20: multiplication distributes over addition.  For all elements a1, a2
\* and b of a reference field, mul(add(a1, a2), b) is
\* add(mul(a1, b), mul(a2, b)).
C20_Distributes ==
    (pc = "called" /\ call.op = "distribute") => out = ref

\* (8 + 2) * 15 = 8 * 15 + 2 * 15 = 12 in GF(2^4) modulo 19, the case of
\* the test distributive_2
C20_Witness ==
    /\ Called("distribute", "gf4_19")
    /\ call.a = 8 /\ call.a2 = 2 /\ call.b = 15
    /\ out = 12 /\ ref = 12

\* C21: after a successful BigLogExpTables::new for the 8-bit field (k = 8)
\* with generator g, exp has exactly 4 * 2^k entries: entries [0, 2 * 2^k)
\* are zero, entries [2 * 2^k, 3 * 2^k) hold g^0 .. g^(2^k - 1), entries
\* [3 * 2^k, 4 * 2^k - 1) repeat the cycle from g^1 on, and the final entry
\* is zero.
C21_ExpLayout ==
    (pc \in {"building", "called"} /\ frame.at = "done") =>
        LET f  == new_gf8(283, 27)
            n  == 2 ^ f.G.ORDER
            pw == PowersOf(f, gen, 1, n)      \* pw[i + 1] = g^i
            e  == frame.exp                   \* entry j of the Vec is e[j + 1]
        IN  /\ Len(e) = 4 * n
            /\ \A j \in 0..((2 * n) - 1) : e[j + 1] = 0
            /\ \A i \in 0..(n - 1) : e[(2 * n) + i + 1] = pw[i + 1]
            /\ \A i \in 1..(n - 1) : e[(3 * n) + (i - 1) + 1] = pw[i + 1]
            /\ e[4 * n] = 0

\* The tables built from the generator 3: 3^2 = 5 at entry 514, 3^255 = 1 at
\* entry 767, 3 again at entry 768
C21_Witness ==
    /\ Called("new", "gf8_11b")
    /\ gen = 3 /\ frame.at = "done"
    /\ Len(frame.exp) = 1024
    /\ frame.exp[515] = 5 /\ frame.exp[768] = 1 /\ frame.exp[769] = 3

\* C22 as stated: after a successful BigLogExpTables::new for the 8-bit
\* field with generator g, log[0] is -2^k and log[g^i] is i for every i in
\* [0, 2^k - 1), so log[1] is 0 and log[g] is 1.
C22_LogOfPowersFromZero ==
    (pc \in {"building", "called"} /\ frame.at = "done") =>
        LET f  == new_gf8(283, 27)
            n  == 2 ^ f.G.ORDER
            pw == PowersOf(f, gen, 1, n)
        IN  /\ frame.log[0 + 1] = 0 - n
            /\ \A i \in 0..(n - 2) : frame.log[pw[i + 1] + 1] = i
            /\ frame.log[1 + 1] = 0
            /\ frame.log[gen + 1] = 1

\* C22, amended: log has 2^k entries, log[0] is -2^k and log[g^i] is i for
\* every i in [1, 2^k - 1]; so log[g] is 1 and log[1], the log of
\* g^(2^k - 1), is 2^k - 1 and not 0.  The table the 8-bit field is built
\* with has log[0] = -256.
C22_LogOfPowers ==
    /\ (pc \in {"building", "called"} /\ frame.at = "done") =>
          LET f  == new_gf8(283, 27)
              n  == 2 ^ f.G.ORDER
              pw == PowersOf(f, gen, 1, n)
          IN  /\ Len(frame.log) = n
              /\ frame.log[0 + 1] = 0 - n
              /\ \A i \in 1..(n - 1) : frame.log[pw[i + 1] + 1] = i
              /\ frame.log[1 + 1] = n - 1
              /\ frame.log[gen + 1] = 1
    /\ f8_0x11b.impl = "F8_0x11b"
    /\ f8_0x11b.tables.log[0 + 1] = -256

\* The tables built from the generator 3: log[3] = 1, log[5] = 2, log[1] = 255
C22_Witness ==
    /\ Called("new", "gf8_11b")
    /\ gen = 3 /\ frame.at = "done"
    /\ frame.log[3 + 1] = 1 /\ frame.log[5 + 1] = 2 /\ frame.log[1 + 1] = 255

\* C23: every unchecked lookup through the biased exp pointer is in bounds.
\* For all 8-bit a and b and every 16-bit exponent e, the offsets
\* log[a] + log[b] (mul), 255 - log[a] (inv) and (log[a] * e) mod 255 (pow)
\* lie in [-512, 511], inside the 1024-entry exp table, and what is read
\* is that entry; when a or b is 0 the mul offset falls in the zero padding
\* and the product is 0.
C23_LookupsInBounds ==
    (pc = "called" /\ call.fld = "gf8_0x11b"
        /\ call.op \in {"mul", "inv", "pow"}) =>
        LET t   == f8_0x11b.tables
            la  == t.log[call.a + 1]
            off == CASE call.op = "mul" -> la + t.log[call.b + 1]
                     [] call.op = "inv" -> 255 - la
                     [] call.op = "pow" -> Rem(la * call.b, 255)
        IN  /\ Len(t.log) = 256 /\ Len(t.exp) = 1024 /\ t.exp_entry = 512
            /\ off \in (-512)..511
            /\ out = t.exp[t.exp_entry + off + 1]
            /\ (call.op = "mul" /\ (call.a = 0 \/ call.b = 0)) =>
                  (off \in (-512)..(-1) /\ out = 0)

\* inv(0) reads the last entry of exp, 511 past the pointer
C23_Witness ==
    /\ Called("inv", "gf8_0x11b")
    /\ call.a = 0
    /\ 255 - f8_0x11b.tables.log[1] = 511
    /\ out = 0

\* C24: the table BytewiseReduceTable::new builds for a k-bit field has 256
\* entries, and entry i is the reduction of i << k modulo the full
\* polynomial of the field for every i in [0, 255]: for the 8-bit field
\* 0x11b, and for the table new_gf16_0x1002b() builds for the 16-bit field
\* 0x1002b (entry i the reduction of i << 16).
C24_ReduceTableEntries ==
    (pc = "called" /\ call.op = "reduce_entry") =>
        /\ Len(ReduceTable(call.fld).reduce) = 256
        /\ out = ref

\* Entry 1 of the table of the 16-bit field is 1 << 8, not x^16 mod 0x1002b
C24_Unreduced ==
    /\ Called("reduce_entry", "gf16_0x1002b")
    /\ call.a = 1
    /\ out = 256 /\ ref = 43

\* C25: mod_shift_left_8 multiplies by x^8 modulo the field polynomial.  In
\* the 8-bit field 0x11b, mod_shift_left_8(hi) XOR lo is the reference
\* mod_reduce of (hi << 8) | lo for all bytes hi and lo; in the 16-bit
\* field 0x1002b, mod_shift_left_8(a) is the reference mul(a, 0x100) for
\* every 16-bit a.
C25_ShiftIsMulByX8 ==
    (pc = "called" /\ call.op = "mod_shift_left_8") => out = ref

\* 0x100 shifted in the 16-bit field: the reference gives x^16 = 0x2b, the
\* table read is past the last entry
C25_ShiftOutOfTable ==
    /\ Called("mod_shift_left_8", "gf16_0x1002b")
    /\ call.a = 256
    /\ ref = 43 /\ out # ref

\* C26: the unchecked read of mod_shift_left_8 uses an 8-bit index.  For
\* every value a it receives (a byte for the table over F8, a 16-bit
\* intermediate of F16_0x1002b::mul for the table over crate::F16), the
\* index a >> (ORDER - 8) is in [0, 255], inside the 256-entry table.
C26_ShiftIndexIsByte ==
    (pc = "called" /\ call.op = "mod_shift_left_8") =>
        LET r == ReduceTable(call.fld)
            k == Shr(call.a, r.G.ORDER - 8)
        IN  /\ k \in 0..255
            /\ k < Len(r.reduce)

\* The table over crate::F16 is indexed with the whole of 0xffff
C26_IndexIsWholeValue ==
    /\ Called("mod_shift_left_8", "gf16_0x1002b")
    /\ call.a = 65535
    /\ f16_0x1002b.reduce.G.ORDER - 8 = 0
    /\ Len(f16_0x1002b.reduce.reduce) = 256

\* C27: every reference operation runs to completion.  In a field with an
\* irreducible polynomial (GF(2^4) with 19, 25, 31; GF(2^8) with 0x11b) and
\* for all operands of the domain, mul, mull, mod_reduce (of every
\* double-width value), pow (with exponents of the width of EE) and inv
\* return a value: no loop spins for ever, no shift amount overflows and
\* the leading-zero arithmetic does not underflow.
C27_ReferenceTerminates ==
    (pc = "called" /\ call.fld \in TermFields
        /\ call.op \in {"mull", "inv", "mod_reduce", "pow"}) =>
        /\ out \notin {Panic, Hang}
        /\ ref \notin {Panic, Hang}
        /\ out \in 0..Field(call.fld).G.FIELD_MASK

\* The Euclidean loop of inv reaches u = 1 for 0x53: the inverse is 0xCA
C27_Witness ==
    /\ Called("inv", "gf8_11b")
    /\ call.a = 83
    /\ out = 202

\* C28: the reference multiplication is associative.  For all elements a,
\* b and c of a reference field with an irreducible polynomial,
\* mul(mul(a, b), c) is mul(a, mul(b, c)).
C28_MulAssociates ==
    (pc = "called" /\ call.op = "associate") => out = ref

\* (7 * 12) * 9 = 2 * 9 = 1 and 7 * (12 * 9) = 7 * 6 = 1 in GF(2^4) modulo 19
C28_Witness ==
    /\ Called("associate", "gf4_19")
    /\ call.a = 7 /\ call.b = 12 /\ call.c = 9
    /\ out = 1 /\ ref = 1
    /\ GaloisField_mul(Field("gf4_19"), 12, 9) = 6

\* C29: the reference pow depends on its exponent only through its residue
\* modulo 2^k - 1.  pow(a, b) is pow(a, b mod (2^k - 1)); an exponent that
\* is a multiple of 2^k - 1 (0 included) gives 1 for every a, 0 included;
\* and pow(0, n) is 0 for every n that 2^k - 1 does not divide.
C29_PowByResidue ==
    (pc = "called" /\ call.op = "pow_residue") =>
        /\ out = ref
        /\ out \in Elements(call.fld)
        /\ (call.b % Field(call.fld).G.FIELD_MASK = 0) => out = 1
        /\ (call.a = 0 /\ call.b % Field(call.fld).G.FIELD_MASK # 0) =>
               out = 0

\* pow(0, 15) = 1 and pow(0, 20) = pow(0, 5) = 0 in GF(2^4): a state with
\* the base 0 and the exponent 15, in a run that also has the exponent 20
C29_Witness ==
    /\ Called("pow_residue", "gf4_19")
    /\ call.a = 0 /\ call.b = 15
    /\ out = 1 /\ ref = 1
    /\ GaloisField_pow(Field("gf4_19"), 0, 20) = 0
    /\ GaloisField_pow(Field("gf4_19"), 2, 34) = 3

\* C30: in every state of BigLogExpTables::new after the biased pointer
\* exp_entry is taken, exp is no longer than the 4 * 2^k entries reserved up
\* front, so the buffer has not moved and exp_entry still points 2 * 2^k
\* entries into it; on a successful return the length is exactly 4 * 2^k;
\* and every log write lands inside log, the running product p being below
\* 2^k: the call panics only where it rejects the generator, with as many
\* entries pushed as iterations counted.
C30_BuildStaysInBounds ==
    (call.op = "new" /\ frame.at \notin {"entry", "returned"}) =>
        LET n == 2 ^ new_gf8(283, 27).G.ORDER
        IN  /\ frame.cap = 4 * n
            /\ frame.exp_entry = 2 * n
            /\ Len(frame.exp) >= frame.exp_entry
            /\ Len(frame.exp) <= frame.cap
            /\ ~ frame.moved
            /\ Len(frame.log) = n
            /\ frame.p \in 0..(n - 1)
            /\ (frame.at = "done") => Len(frame.exp) = 4 * n
            /\ (frame.at = "panic") =>
                   /\ Len(frame.exp) = frame.exp_entry + frame.i
                   /\ (frame.p = 1 \/ frame.i = n)

\* The call with the generator 3 inside its second loop: 900 of the 1024
\* reserved entries pushed, the running product 3^132 about to be pushed
C30_Witness ==
    /\ pc = "building" /\ call.op = "new"
    /\ gen = 3 /\ frame.at = "again"
    /\ Len(frame.exp) = 900 /\ frame.n = 132
    /\ frame.exp[900] = frame.p
    /\ ~ frame.moved
=============================================================================
